---------------------------- MODULE Spec2Model ----------------------------
(***************************************************************************)
(* A model of loteria-parser: the Parser (parse, registerPlugin,           *)
(* initialize, cleanup, extractStructure), its Preprocessor, Validator,    *)
(* the plugin base class and the default plugins.                          *)
(*                                                                         *)
(* Texts are sequences of one-character strings, so that every regular     *)
(* expression of the source is modelled as a matcher over characters.      *)
(* Amounts are integers counting hundredths (20 -> 2000, 0.01 -> 1); NaN   *)
(* is the string "NaN" and null/undefined is the string "null".            *)
(***************************************************************************)
EXTENDS Integers, Sequences, FiniteSets, TLC

(***************************************************************************)
(* Characters                                                              *)
(***************************************************************************)
NL == "\n"
CR == "\r"
TAB == "\t"

Digit == {"0", "1", "2", "3", "4", "5", "6", "7", "8", "9"}
Lower == {"a", "b", "c", "d", "e", "f", "g", "h", "i", "j", "k", "l", "m",
          "n", "o", "p", "q", "r", "s", "t", "u", "v", "w", "x", "y", "z"}
Upper == {"A", "B", "C", "D", "E", "F", "G", "H", "I", "J", "K", "L", "M",
          "N", "O", "P", "Q", "R", "S", "T", "U", "V", "W", "X", "Y", "Z"}
Letter == Lower \cup Upper
\* \s of a JavaScript regular expression, over the characters of the model
Space == {" ", TAB, NL, CR}
\* \w
WordChar == Letter \cup Digit \cup {"_"}

\* String.prototype.toLowerCase, one character
ToLower(c) ==
  CASE c = "A" -> "a" [] c = "B" -> "b" [] c = "C" -> "c" [] c = "D" -> "d"
    [] c = "E" -> "e" [] c = "F" -> "f" [] c = "G" -> "g" [] c = "H" -> "h"
    [] c = "I" -> "i" [] c = "J" -> "j" [] c = "K" -> "k" [] c = "L" -> "l"
    [] c = "M" -> "m" [] c = "N" -> "n" [] c = "O" -> "o" [] c = "P" -> "p"
    [] c = "Q" -> "q" [] c = "R" -> "r" [] c = "S" -> "s" [] c = "T" -> "t"
    [] c = "U" -> "u" [] c = "V" -> "v" [] c = "W" -> "w" [] c = "X" -> "x"
    [] c = "Y" -> "y" [] c = "Z" -> "z" [] OTHER -> c

DigitVal(c) ==
  CASE c = "0" -> 0 [] c = "1" -> 1 [] c = "2" -> 2 [] c = "3" -> 3
    [] c = "4" -> 4 [] c = "5" -> 5 [] c = "6" -> 6 [] c = "7" -> 7
    [] c = "8" -> 8 [] c = "9" -> 9

DigitChar(n) ==
  CASE n = 0 -> "0" [] n = 1 -> "1" [] n = 2 -> "2" [] n = 3 -> "3"
    [] n = 4 -> "4" [] n = 5 -> "5" [] n = 6 -> "6" [] n = 7 -> "7"
    [] n = 8 -> "8" [] n = 9 -> "9"

(***************************************************************************)
(* Strings as sequences of characters                                      *)
(***************************************************************************)
Min(a, b) == IF a < b THEN a ELSE b
Max(a, b) == IF a > b THEN a ELSE b
Abs(a) == IF a < 0 THEN 0 - a ELSE a

\* the value of the last of the statements, which are evaluated in order
Last(statements) == statements[Len(statements)]

\* const name = value; body: the body with the value bound to its name
Let(value, Body(_)) == Body(value)

\* s.substring(i-1, j-1): the characters at 1-based positions i .. j-1
Sub(s, i, j) == SubSeq(s, i, j - 1)

\* the position after the longest run of characters of C that starts at i
SkipWhile(s, i, C) ==
  LET stops == {k \in i..Len(s) : s[k] \notin C}
  IN  IF i > Len(s) THEN i
      ELSE IF stops = {} THEN Len(s) + 1
      ELSE CHOOSE k \in stops : \A m \in stops : k <= m

SkipSpace(s, i) == SkipWhile(s, i, Space)

\* the position of the first character of C at or after i, or Len(s) + 1
SkipUntil(s, i, C) ==
  LET stops == {k \in i..Len(s) : s[k] \in C}
  IN  IF i > Len(s) THEN i
      ELSE IF stops = {} THEN Len(s) + 1
      ELSE CHOOSE k \in stops : \A m \in stops : k <= m

\* the literal lit (lower case) stands at position i of s, ignoring case
LitAtCI(s, i, lit) ==
  /\ i + Len(lit) - 1 <= Len(s)
  /\ \A k \in 1..Len(lit) : ToLower(s[i + k - 1]) = lit[k]

\* the literal lit stands at position i of s
LitAt(s, i, lit) ==
  /\ i + Len(lit) - 1 <= Len(s)
  /\ \A k \in 1..Len(lit) : s[i + k - 1] = lit[k]

\* \b at position i: between s[i-1] and s[i] exactly one is a word character
WordBoundary(s, i) ==
  LET before == i > 1 /\ i - 1 <= Len(s) /\ s[i - 1] \in WordChar
      after == i >= 1 /\ i <= Len(s) /\ s[i] \in WordChar
  IN  before # after

\* String.prototype.trim
Trim(s) ==
  IF Len(s) = 0 THEN s ELSE
  LET keep == {k \in 1..Len(s) : s[k] \notin Space}
  IN  IF keep = {} THEN <<>>
      ELSE LET a == CHOOSE k \in keep : \A m \in keep : k <= m
               b == CHOOSE k \in keep : \A m \in keep : k >= m
           IN  SubSeq(s, a, b)

\* concatenation of the sequences seqs[lo] .. seqs[hi]
RECURSIVE FlattenRange(_, _, _)
FlattenRange(seqs, lo, hi) ==
  IF lo > hi THEN <<>>
  ELSE IF lo = hi THEN seqs[lo]
  ELSE LET mid == (lo + hi) \div 2
       IN  FlattenRange(seqs, lo, mid) \o FlattenRange(seqs, mid + 1, hi)

\* concatenation of a sequence of sequences
Flatten(seqs) == FlattenRange(seqs, 1, Len(seqs))

\* String.prototype.split on one separator character
Split(s, sep) ==
  IF Len(s) = 0 THEN << <<>> >> ELSE
  LET cuts == {0, Len(s) + 1} \cup {k \in 1..Len(s) : s[k] = sep}
      next(k) == CHOOSE c \in cuts : c > k /\ \A m \in cuts : m > k => c <= m
      starts == {k \in cuts : k <= Len(s)}
      nth[i \in 1..Cardinality(starts)] ==
        \* the cut before the i-th piece
        IF i = 1 THEN 0 ELSE next(nth[i - 1])
  IN  [i \in 1..Cardinality(starts) |-> Sub(s, nth[i] + 1, next(nth[i]))]

\* Array.prototype.join with one separator character
Join(parts, sep) ==
  IF Len(parts) = 0 THEN <<>> ELSE
  Flatten([i \in 1..Len(parts) |->
             IF i = 1 THEN parts[i] ELSE <<sep>> \o parts[i]])

\* Array.prototype.map
Map(seq, F(_)) == [i \in 1..Len(seq) |-> F(seq[i])]

\* the start of the leftmost match at or after position from, or 0;
\* MatchEnd(s, i) is the position after the match that starts at i, or 0
FindFrom(s, from, MatchEnd(_, _)) ==
  LET starts == {i \in from..Len(s) : MatchEnd(s, i) > i}
  IN  IF starts = {} THEN 0
      ELSE CHOOSE i \in starts : \A m \in starts : i <= m

\* the matches met by scanning from position k on: first[k] is the start of
\* the leftmost match at or after k (or 0) and end[i] the position after the
\* match that starts at i
RECURSIVE Scan(_, _, _)
Scan(first, end, k) ==
  IF k > Len(first) \/ first[k] = 0 THEN <<>>
  ELSE << <<first[k], end[first[k]]>> >> \o Scan(first, end, end[first[k]])

\* every non-overlapping match at or after from, leftmost first, as
\* <<start, end>> pairs: what a regular expression with the g flag iterates
MatchesFrom(s, from, MatchEnd(_, _)) ==
  IF from > Len(s) THEN <<>> ELSE
  Let([i \in 1..Len(s) |-> MatchEnd(s, i)], LAMBDA end :
  Let({i \in Max(from, 1)..Len(s) : end[i] > i}, LAMBDA starts :
  IF starts = {} THEN <<>>
  ELSE Scan([k \in 1..Len(s) |->
               IF \A i \in starts : i < k THEN 0
               ELSE CHOOSE i \in starts :
                      i >= k /\ \A m \in starts : m >= k => i <= m],
            end, Max(from, 1))))

\* String.prototype.replace(regex with g, replacement): Repl(s, i, j)
\* replaces the match s[i .. j-1]
ReplaceAll(s, MatchEnd(_, _), Repl(_, _, _)) ==
  IF Len(s) = 0 THEN s ELSE
  Let(MatchesFrom(s, 1, MatchEnd), LAMBDA ms :
  Let(Len(ms), LAMBDA n :
  IF n = 0 THEN s
  ELSE Flatten([k \in 1..(2 * n + 1) |->
         IF k % 2 = 0 THEN Repl(s, ms[k \div 2][1], ms[k \div 2][2])
         ELSE Sub(s, IF k = 1 THEN 1 ELSE ms[(k - 1) \div 2][2],
                     IF k = 2 * n + 1 THEN Len(s) + 1 ELSE ms[(k + 1) \div 2][1])])))

\* String.prototype.padStart(2, '0')
PadStart2(s) == IF Len(s) >= 2 THEN s ELSE IF Len(s) = 1 THEN <<"0">> \o s ELSE <<"0", "0">>

\* parseInt(s, 10) of a string of digits
RECURSIVE ParseInt(_)
ParseInt(s) ==
  IF Len(s) = 0 THEN 0
  ELSE 10 * ParseInt(SubSeq(s, 1, Len(s) - 1)) + DigitVal(s[Len(s)])

\* Number.prototype.toString of a natural number
RECURSIVE NatToString(_)
NatToString(n) ==
  IF n < 10 THEN <<DigitChar(n)>>
  ELSE NatToString(n \div 10) \o <<DigitChar(n % 10)>>

\* String.prototype.split('').reverse().join('')
Reverse(s) == [i \in 1..Len(s) |-> s[Len(s) + 1 - i]]

\* the length of the run of digits that starts at position i
DigitRun(s, i) == SkipWhile(s, i, Digit) - i

(***************************************************************************)
(* The patterns catalog (PATTERNS): for each regular expression, the       *)
(* position after the match that starts at position i, or 0          *)
(***************************************************************************)
\* VOLTEO: /(\d{2,4})\s*v\b/gi
VOLTEO(s, i) ==
  Let(DigitRun(s, i), LAMBDA r :
  Let(SkipSpace(s, i + r), LAMBDA k :
  IF /\ r >= 2 /\ r <= 4
     /\ k <= Len(s) /\ ToLower(s[k]) = "v"
     /\ ~(k + 1 <= Len(s) /\ s[k + 1] \in WordChar)
  THEN k + 1 ELSE 0))

\* RANGO: /(\d{1,2})\s*al\s*(\d{1,2})/gi
RANGO(s, i) ==
  Let(DigitRun(s, i), LAMBDA r :
  Let(SkipSpace(s, i + r), LAMBDA k :
  Let(SkipSpace(s, k + 2), LAMBDA k2 :
  Let(DigitRun(s, k2), LAMBDA r2 :
  IF r >= 1 /\ r <= 2 /\ LitAtCI(s, k, <<"a", "l">>) /\ r2 >= 1
  THEN k2 + Min(r2, 2) ELSE 0))))

\* /\b<letter>\s*(\d{1,2})\b/gi, the shape of DECENA and TERMINAL
LetterDigits(s, i, letter) ==
  Let(SkipSpace(s, i + 1), LAMBDA k :
  Let(DigitRun(s, k), LAMBDA r :
  IF /\ i <= Len(s) /\ ToLower(s[i]) = letter /\ WordBoundary(s, i)
     /\ r >= 1 /\ r <= 2
     /\ ~(k + r <= Len(s) /\ s[k + r] \in WordChar)
  THEN k + r ELSE 0))

\* DECENA: /\bd\s*(\d{1,2})\b/gi
DECENA(s, i) == LetterDigits(s, i, "d")

\* TERMINAL: /\bt\s*(\d{1,2})\b/gi
TERMINAL(s, i) == LetterDigits(s, i, "t")

\* PARES_RELATIVOS: /(\d{2,4})\s*pr\s*(\d{1,3})/gi
PARES_RELATIVOS(s, i) ==
  Let(DigitRun(s, i), LAMBDA r :
  Let(SkipSpace(s, i + r), LAMBDA k :
  Let(SkipSpace(s, k + 2), LAMBDA k2 :
  Let(DigitRun(s, k2), LAMBDA r2 :
  IF r >= 2 /\ r <= 4 /\ LitAtCI(s, k, <<"p", "r">>) /\ r2 >= 1
  THEN k2 + Min(r2, 3) ELSE 0))))

\* (\d+(?:[.,]\d+)?) at position i: the position after it, or 0
AmountEnd(s, i) ==
  Let(i + DigitRun(s, i), LAMBDA e :
  IF e = i THEN 0
  ELSE IF e + 1 <= Len(s) /\ s[e] \in {".", ","} /\ s[e + 1] \in Digit
       THEN SkipWhile(s, e + 1, Digit)
       ELSE e)

\* \s+<word>\s+(\d+(?:[.,]\d+)?) from position i: <<start of the amount,
\* position after it>>, or <<0, 0>>
SpacedWordAmount(s, i, word) ==
  Let(SkipSpace(s, i), LAMBDA k :
  Let(SkipSpace(s, k + Len(word)), LAMBDA k2 :
  Let(AmountEnd(s, k2), LAMBDA e :
  IF k > i /\ LitAtCI(s, k, word) /\ k2 > k + Len(word) /\ e # 0
  THEN <<k2, e>> ELSE <<0, 0>>)))

\* the tail of CENTENAS_TODAS from position k, after the lazy group:
\* \s*por\s*todas?\s*(?:las?\s*)?centenas?(?:\s+con\s+(\d+(?:[.,]\d+)?))?
\* gives <<position after the match, start of the amount, end of the amount>>
CentenasTail(s, k) ==
  Let(SkipSpace(s, k), LAMBDA a :
  Let(SkipSpace(s, a + 3), LAMBDA b :
  Let(SkipSpace(s, IF LitAtCI(s, b + 4, <<"s">>) THEN b + 5 ELSE b + 4), LAMBDA d :
  Let(IF LitAtCI(s, d, <<"l", "a">>)
      THEN SkipSpace(s, IF LitAtCI(s, d + 2, <<"s">>) THEN d + 3 ELSE d + 2)
      ELSE d, LAMBDA e :
  Let(IF LitAtCI(s, e + 7, <<"s">>) THEN e + 8 ELSE e + 7, LAMBDA f :
  Let(SpacedWordAmount(s, f, <<"c", "o", "n">>), LAMBDA con :
  IF /\ LitAtCI(s, a, <<"p", "o", "r">>)
     /\ LitAtCI(s, b, <<"t", "o", "d", "a">>)
     /\ LitAtCI(s, e, <<"c", "e", "n", "t", "e", "n", "a">>)
  THEN IF con[2] # 0 THEN <<con[2], con[1], con[2]>> ELSE <<f, 0, 0>>
  ELSE <<0, 0, 0>>))))))

\* the end of the lazy group (.+?) of CENTENAS_TODAS for a match at i, or 0
CentenasGroupEnd(s, i) ==
  Let({k \in (i + 1)..SkipUntil(s, i, {NL, CR}) : CentenasTail(s, k)[1] # 0},
      LAMBDA ks :
  IF ks = {} THEN 0 ELSE CHOOSE k \in ks : \A m \in ks : k <= m)

\* CENTENAS_TODAS:
\* /(.+?)\s*por\s*todas?\s*(?:las?\s*)?centenas?(?:\s+con\s+(\d+(?:[.,]\d+)?))?/gi
CENTENAS_TODAS(s, i) ==
  Let(CentenasGroupEnd(s, i), LAMBDA k :
  IF k = 0 THEN 0 ELSE CentenasTail(s, k)[1])

\* PARLE_EXPLICITO: /(\d{2,4})\s*[*x]\s*(\d{2,4})/gi
PARLE_EXPLICITO(s, i) ==
  Let(DigitRun(s, i), LAMBDA r :
  Let(SkipSpace(s, i + r), LAMBDA k :
  Let(SkipSpace(s, k + 1), LAMBDA k2 :
  Let(DigitRun(s, k2), LAMBDA r2 :
  IF /\ r >= 2 /\ r <= 4
     /\ k <= Len(s) /\ ToLower(s[k]) \in {"*", "x"}
     /\ r2 >= 2
  THEN k2 + Min(r2, 4) ELSE 0))))

(***************************************************************************)
(* Preprocessor (src/src/preprocessor.ts); c is the parser configuration   *)
(***************************************************************************)
\* the keyword test of isNombreJugador:
\* /\b(con|parle|candado|total|fijo|corrido|al|pr|v|d|t)\b/i
Keywords ==
  { <<"c", "o", "n">>, <<"p", "a", "r", "l", "e">>,
    <<"c", "a", "n", "d", "a", "d", "o">>, <<"t", "o", "t", "a", "l">>,
    <<"f", "i", "j", "o">>, <<"c", "o", "r", "r", "i", "d", "o">>,
    <<"a", "l">>, <<"p", "r">>, <<"v">>, <<"d">>, <<"t">> }

HasKeyword(s) ==
  \E i \in 1..Len(s) : \E kw \in Keywords :
    /\ LitAtCI(s, i, kw)
    /\ WordBoundary(s, i)
    /\ WordBoundary(s, i + Len(kw))

\* (trimmed.match(/[A-Za-z...]/g) || []).length
LetterCount(s) == Cardinality({k \in 1..Len(s) : s[k] \in Letter})

\* Preprocessor.isNombreJugador: at most 35 characters, letter ratio > 0.7
PreIsNombreJugador(line) ==
  Let(Trim(line), LAMBDA trimmed :
  /\ Len(trimmed) >= 2
  /\ Len(trimmed) <= 35
  /\ trimmed[1] \notin Digit
  /\ ~HasKeyword(trimmed)
  /\ 10 * LetterCount(trimmed) > 7 * Len(trimmed))

\* .replace(/\r\n/g, '\n').replace(/\r/g, '\n')
CrLfEnd(s, i) == IF s[i] = CR THEN (IF LitAt(s, i + 1, <<NL>>) THEN i + 2 ELSE i + 1) ELSE 0
CrLfRepl(s, i, j) == <<NL>>

\* .replace(/\n{3,}/g, '\n\n')
NewlinesEnd(s, i) ==
  Let(SkipWhile(s, i, {NL}), LAMBDA e : IF e - i >= 3 THEN e ELSE 0)
NewlinesRepl(s, i, j) == <<NL, NL>>

\* .replace(/\t/g, ' ')
TabEnd(s, i) == IF s[i] = TAB THEN i + 1 ELSE 0
OneSpace(s, i, j) == <<" ">>

\* .replace(/[ ...]+/g, ' '): a run of blanks becomes one space
BlanksEnd(s, i) == IF s[i] = " " THEN SkipWhile(s, i, {" "}) ELSE 0

\* .split('\n').map(line => line.trim()).join('\n')
TrimLines(s) == Join(Map(Split(s, NL), Trim), NL)

\* .replace(/\s*([*x\-+.])\s*/g, '$1')
Operators == {"*", "x", "-", "+", "."}
OperatorEnd(s, i) ==
  Let(SkipSpace(s, i), LAMBDA k :
  IF k <= Len(s) /\ s[k] \in Operators THEN SkipSpace(s, k + 1) ELSE 0)
OperatorRepl(s, i, j) == <<s[SkipSpace(s, i)]>>

\* .replace(/,(\S)/g, ', $1')
CommaEnd(s, i) ==
  IF s[i] = "," /\ i + 1 <= Len(s) /\ s[i + 1] \notin Space THEN i + 2 ELSE 0
CommaRepl(s, i, j) == <<",", " ", s[i + 1]>>

\* Preprocessor.normalizeSpaces
normalizeSpaces(text) ==
  Let(ReplaceAll(text, CrLfEnd, CrLfRepl), LAMBDA s1 :
  Let(ReplaceAll(s1, NewlinesEnd, NewlinesRepl), LAMBDA s2 :
  Let(ReplaceAll(s2, TabEnd, OneSpace), LAMBDA s3 :
  Let(ReplaceAll(s3, BlanksEnd, OneSpace), LAMBDA s4 :
  Let(TrimLines(s4), LAMBDA s5 :
  Let(ReplaceAll(s5, OperatorEnd, OperatorRepl), LAMBDA s6 :
  ReplaceAll(s6, CommaEnd, CommaRepl)))))))

\* the confusables of normalizeSpecialCharacters and the quotes it removes
Confusable(c) ==
  IF c \in {"o", "O"} THEN <<"0">>
  ELSE IF c \in {"l", "I", "|"} THEN <<"1">>
  ELSE IF c = "'" THEN <<>>
  ELSE <<c>>

\* Preprocessor.normalizeSpecialCharacters
normalizeSpecialCharacters(text) ==
  Let(Flatten([k \in 1..Len(text) |-> Confusable(text[k])]), LAMBDA mapped :
  Let(Split(mapped, NL), LAMBDA lines :
  Join([k \in 1..Len(lines) |->
          IF k = 1 /\ PreIsNombreJugador(lines[k]) THEN lines[k]
          ELSE [m \in 1..Len(lines[k]) |-> ToLower(lines[k][m])]], NL)))

\* i.toString().padStart(2, '0')
Pad2(n) == PadStart2(NatToString(n))

\* numeros.join(' ')
JoinSp(seqs) == Join(seqs, " ")

\* /\d{1,4}/g: a run of digits is cut into pieces of at most four
Digits14(s, i) == IF s[i] \in Digit THEN i + Min(DigitRun(s, i), 4) ELSE 0

\* the numbers kept from the matches of a digit pattern: two or three digits
\* as they are, four digits as two numbers, one digit dropped
NumbersOf(s, matches) ==
  Flatten([k \in 1..Len(matches) |->
    LET m == Sub(s, matches[k][1], matches[k][2])
    IN  IF Len(m) \in {2, 3} THEN <<m>>
        ELSE IF Len(m) = 4 THEN <<SubSeq(m, 1, 2), SubSeq(m, 3, 4)>>
        ELSE <<>>])

\* the matches of /\d{1,4}/g from position i on, as <<start, end>> pairs
RECURSIVE DigitPieces(_, _)
DigitPieces(s, i) ==
  LET k == SkipUntil(s, i, Digit)
  IN  IF k > Len(s) THEN <<>>
      ELSE << <<k, Digits14(s, k)>> >> \o DigitPieces(s, Digits14(s, k))

\* Preprocessor.extractNumbers
PreExtractNumbers(text) == NumbersOf(text, DigitPieces(text, 1))

\* Preprocessor.expandVolteos
VolteoRepl(s, i, j) ==
  Let(PadStart2(Sub(s, i, i + DigitRun(s, i))), LAMBDA normalized :
  normalized \o <<" ">> \o Reverse(normalized))
expandVolteos(text) == ReplaceAll(text, VOLTEO, VolteoRepl)

\* Preprocessor.expandRanges
RangoRepl(s, i, j) ==
  Let(DigitRun(s, i), LAMBDA r :
  Let(ParseInt(Sub(s, i, i + r)), LAMBDA inicio :
  Let(ParseInt(Sub(s, SkipSpace(s, SkipSpace(s, i + r) + 2), j)), LAMBDA fin :
  IF inicio > fin THEN Sub(s, i, j)
  ELSE JoinSp([n \in 1..(fin - inicio + 1) |-> Pad2(inicio + n - 1)]))))
expandRanges(text) == ReplaceAll(text, RANGO, RangoRepl)

\* the digit captured by DECENA or TERMINAL, modulo 10
LetterDigit(s, i, j) == ParseInt(Sub(s, SkipSpace(s, i + 1), j)) % 10

\* Preprocessor.expandDecenas
DecenaRepl(s, i, j) ==
  JoinSp([n \in 1..10 |-> <<DigitChar(n - 1), DigitChar(LetterDigit(s, i, j))>>])
expandDecenas(text) == ReplaceAll(text, DECENA, DecenaRepl)

\* Preprocessor.expandTerminales
TerminalRepl(s, i, j) ==
  JoinSp([n \in 1..10 |-> <<DigitChar(LetterDigit(s, i, j)), DigitChar(n - 1)>>])
expandTerminales(text) == ReplaceAll(text, TERMINAL, TerminalRepl)

\* the numbers of a pares-relativos match: base, then 01 .. min(K, 100)
ParesRelativosNumbers(s, i, j) ==
  Let(DigitRun(s, i), LAMBDA r :
  Let(PadStart2(Sub(s, i, i + r)), LAMBDA base :
  Let(Min(ParseInt(Sub(s, SkipSpace(s, SkipSpace(s, i + r) + 2), j)), 100),
      LAMBDA cantidad :
  [n \in 1..cantidad |-> base \o Pad2(n)])))

\* Preprocessor.expandParesRelativos
ParesRelativosRepl(s, i, j) == JoinSp(ParesRelativosNumbers(s, i, j))
expandParesRelativos(text) == ReplaceAll(text, PARES_RELATIVOS, ParesRelativosRepl)

\* the ten centenas 0NN .. 9NN of every two-digit number of numeros
CentenasOf(numeros) ==
  Flatten([k \in 1..Len(numeros) |->
    IF Len(numeros[k]) = 2
    THEN [n \in 1..10 |-> <<DigitChar(n - 1)>> \o numeros[k]]
    ELSE <<>>])

\* Preprocessor.expandCentenasTodas
CentenasTodasRepl(s, i, j) ==
  Let(CentenasGroupEnd(s, i), LAMBDA k :
  Let(CentenasTail(s, k), LAMBDA tail :
  JoinSp(CentenasOf(PreExtractNumbers(Sub(s, i, k))))
  \o (IF tail[2] # 0
      THEN <<" ", "c", "o", "n", " ">> \o Sub(s, tail[2], tail[3])
      ELSE <<>>)))
expandCentenasTodas(text) == ReplaceAll(text, CENTENAS_TODAS, CentenasTodasRepl)

\* Preprocessor.expandPatterns
expandPatterns(text) ==
  Let(expandVolteos(text), LAMBDA s1 :
  Let(expandRanges(s1), LAMBDA s2 :
  Let(expandDecenas(s2), LAMBDA s3 :
  Let(expandTerminales(s3), LAMBDA s4 :
  Let(expandParesRelativos(s4), LAMBDA s5 :
  expandCentenasTodas(s5))))))

\* .replace(/(\d),(\d)/g, p1 + decimalSeparator + p2)
DecimalCommaEnd(s, i) ==
  IF s[i] \in Digit /\ LitAt(s, i + 1, <<",">>) /\ i + 2 <= Len(s) /\ s[i + 2] \in Digit
  THEN i + 3 ELSE 0

\* .replace(/(con)(\d)/gi, '$1 $2')
ConDigitEnd(s, i) ==
  IF LitAtCI(s, i, <<"c", "o", "n">>) /\ i + 3 <= Len(s) /\ s[i + 3] \in Digit
  THEN i + 4 ELSE 0
ConDigitRepl(s, i, j) == Sub(s, i, i + 3) \o <<" ", s[i + 3]>>

\* .replace(/(\d)\s*(y)\s*(\d)/gi, '$1 $2 $3')
DigitYDigitEnd(s, i) ==
  Let(SkipSpace(s, i + 1), LAMBDA k :
  Let(SkipSpace(s, k + 1), LAMBDA k2 :
  IF /\ s[i] \in Digit
     /\ k <= Len(s) /\ ToLower(s[k]) = "y"
     /\ k2 <= Len(s) /\ s[k2] \in Digit
  THEN k2 + 1 ELSE 0))
DigitYDigitRepl(s, i, j) == <<s[i], " ", s[SkipSpace(s, i + 1)], " ", s[j - 1]>>

\* .replace(/[$...]/g, ''): the currency symbols
CurrencyEnd(s, i) == IF s[i] = "$" THEN i + 1 ELSE 0
Nothing(s, i, j) == <<>>

\* .replace(/\b(\d+)\s*(?:pesos?|bs|bss?)\b/gi, '$1')
CurrencyWords ==
  { <<"p", "e", "s", "o">>, <<"p", "e", "s", "o", "s">>, <<"b", "s">>, <<"b", "s", "s">> }
PesosEnd(s, i) ==
  Let(SkipSpace(s, SkipWhile(s, i, Digit)), LAMBDA k :
  Let({w \in CurrencyWords :
         /\ LitAtCI(s, k, w)
         /\ ~(k + Len(w) <= Len(s) /\ s[k + Len(w)] \in WordChar)}, LAMBDA ws :
  IF s[i] \in Digit /\ WordBoundary(s, i) /\ ws # {}
  THEN k + Len(CHOOSE w \in ws : TRUE) ELSE 0))
PesosRepl(s, i, j) == Sub(s, i, SkipWhile(s, i, Digit))

\* Preprocessor.normalizeAmounts
normalizeAmounts(text, c) ==
  LET DecimalCommaRepl(s, i, j) == <<s[i], c.decimalSeparator, s[i + 2]>>
  IN  Let(ReplaceAll(text, DecimalCommaEnd, DecimalCommaRepl), LAMBDA s1 :
      Let(ReplaceAll(s1, ConDigitEnd, ConDigitRepl), LAMBDA s2 :
      Let(ReplaceAll(s2, DigitYDigitEnd, DigitYDigitRepl), LAMBDA s3 :
      Let(ReplaceAll(s3, CurrencyEnd, Nothing), LAMBDA s4 :
      ReplaceAll(s4, PesosEnd, PesosRepl)))))

\* the characters the final filter of cleanup keeps:
\* [\d\s\n.,a-z...A-Z...\-*xconypdealtprv]
Allowed == Digit \cup Space \cup Letter \cup {".", ",", "-", "*"}

\* .replace(/ +\n/g, '\n')
BlanksNewlineEnd(s, i) ==
  Let(SkipWhile(s, i, {" "}), LAMBDA e :
  IF e > i /\ LitAt(s, e, <<NL>>) THEN e + 1 ELSE 0)
NewlineRepl(s, i, j) == <<NL>>

\* .replace(/^\n+|\n+$/g, '')
TrimNewlines(text) ==
  Let({k \in 1..Len(text) : text[k] # NL}, LAMBDA keep :
  IF keep = {} THEN <<>>
  ELSE SubSeq(text, CHOOSE k \in keep : \A m \in keep : k <= m,
                    CHOOSE k \in keep : \A m \in keep : k >= m))

\* Preprocessor.cleanup
cleanup(text) ==
  LET HasContent(line) == Len(Trim(line)) > 0
  IN  Let(TrimNewlines(text), LAMBDA inner :
      Let(ReplaceAll(inner, BlanksNewlineEnd, NewlineRepl), LAMBDA s2 :
      Let(SelectSeq(s2, LAMBDA ch : ch \in Allowed), LAMBDA s3 :
      Join(SelectSeq(Split(s3, NL), HasContent), NL))))

\* Preprocessor.process
process(text, c) ==
  Let(normalizeSpaces(text), LAMBDA s0 :
  Let(normalizeSpecialCharacters(s0), LAMBDA s1 :
  Let(IF c.autoExpand THEN expandPatterns(s1) ELSE s1, LAMBDA s2 :
  Let(normalizeAmounts(s2, c), LAMBDA s3 :
  cleanup(s3)))))

(***************************************************************************)
(* Numbers: a JavaScript number-or-null is a record; k is "num", "NaN" or  *)
(* "null", and v counts hundredths when k is "num"                         *)
(***************************************************************************)
Num(v) == [k |-> "num", v |-> v]
NaN == [k |-> "NaN", v |-> 0]
Null == [k |-> "null", v |-> 0]

IsNaN(x) == x.k = "NaN"

\* a + b
NumAdd(a, b) == IF a.k = "num" /\ b.k = "num" THEN Num(a.v + b.v) ELSE NaN

\* n * a, n a count
NumTimes(n, a) == IF a.k = "num" THEN Num(n * a.v) ELSE NaN

\* Math.abs(a - b)
AbsDiff(a, b) == IF a.k = "num" /\ b.k = "num" THEN Num(Abs(a.v - b.v)) ELSE NaN

\* a < b and a > b: every comparison with NaN is false
NumLt(a, b) == a.k = "num" /\ b.k = "num" /\ a.v < b.v
NumGt(a, b) == NumLt(b, a)

\* the first two decimals of a fraction, as hundredths
Hundredths(frac) ==
  IF Len(frac) = 0 THEN 0
  ELSE IF Len(frac) = 1 THEN 10 * DigitVal(frac[1])
  ELSE 10 * DigitVal(frac[1]) + DigitVal(frac[2])

\* parseFloat: leading blanks, digits, an optional point and digits; what
\* follows is ignored, and with no digit at all the value is NaN
parseFloat(s) ==
  Let(SkipSpace(s, 1), LAMBDA i0 :
  Let(SkipWhile(s, i0, Digit), LAMBDA a :
  Let(IF a <= Len(s) /\ s[a] = "." THEN SkipWhile(s, a + 1, Digit) ELSE a,
      LAMBDA b :
  IF a = i0 /\ b <= a + 1 THEN NaN
  ELSE Num(100 * ParseInt(Sub(s, i0, a))
           + Hundredths(IF b > a THEN Sub(s, a + 1, b) ELSE <<>>)))))

\* String.prototype.replace(',', '.'): the first comma only
ReplaceComma(s) ==
  LET commas == {k \in 1..Len(s) : s[k] = ","}
  IN  IF commas = {} THEN s
      ELSE [k \in 1..Len(s) |->
              IF k = (CHOOSE c \in commas : \A m \in commas : c <= m)
              THEN "." ELSE s[k]]

\* parseFloat(group.replace(',', '.'))
Amount(group) == parseFloat(ReplaceComma(group))

\* a sequence of characters as a string
RECURSIVE StrRange(_, _, _)
StrRange(s, lo, hi) ==
  IF lo > hi THEN ""
  ELSE IF lo = hi THEN s[lo]
  ELSE StrRange(s, lo, (lo + hi) \div 2) \o StrRange(s, (lo + hi) \div 2 + 1, hi)
Str(s) == StrRange(s, 1, Len(s))

\* Number.prototype.toFixed(2)
toFixed2(a) ==
  IF a.k # "num" THEN a.k
  ELSE (IF a.v < 0 THEN "-" ELSE "") \o ToString(Abs(a.v) \div 100) \o "."
       \o ToString((Abs(a.v) % 100) \div 10) \o ToString(Abs(a.v) % 10)

\* a number inside a template string: no trailing zero decimals
NumStr(a) ==
  IF a.k # "num" THEN a.k
  ELSE (IF a.v < 0 THEN "-" ELSE "") \o ToString(Abs(a.v) \div 100)
       \o (IF a.v % 100 = 0 THEN ""
           ELSE "." \o ToString((Abs(a.v) % 100) \div 10)
                \o (IF a.v % 10 = 0 THEN "" ELSE ToString(Abs(a.v) % 10)))

(***************************************************************************)
(* Validator (src/validators); messages are written without accents        *)
(***************************************************************************)
\* Validator.isNombreJugador: no length limit, letter ratio > 0.6
isNombreJugador(line) ==
  Let(Trim(line), LAMBDA trimmed :
  /\ Len(trimmed) >= 2
  /\ trimmed[1] \notin Digit
  /\ ~HasKeyword(trimmed)
  /\ 10 * LetterCount(trimmed) > 6 * Len(trimmed))

\* Validator.isTotalLine: /^\s*total\b/i on the trimmed line
isTotalLine(line) ==
  Let(Trim(line), LAMBDA t :
  LitAtCI(t, 1, <<"t", "o", "t", "a", "l">>) /\ WordBoundary(t, 6))

\* Validator.validateTotalLine: /\btotal\b[:\s]*\d+(?:[.,]\d+)?/i
validateTotalLine(line) ==
  \E i \in 1..Len(line) :
    /\ WordBoundary(line, i)
    /\ LitAtCI(line, i, <<"t", "o", "t", "a", "l">>)
    /\ WordBoundary(line, i + 5)
    /\ LET k == SkipWhile(line, i + 5, Space \cup {":"})
       IN  k <= Len(line) /\ line[k] \in Digit

\* Validator.hasNumbers: /\d/
hasNumbers(line) == \E k \in 1..Len(line) : line[k] \in Digit

\* Validator.hasAmounts: /(?:con|de|a)\s*\d+(?:[.,]\d+)?/i
hasAmounts(line) ==
  \E i \in 1..Len(line) : \E w \in {<<"c", "o", "n">>, <<"d", "e">>, <<"a">>} :
    /\ LitAtCI(line, i, w)
    /\ LET k == SkipSpace(line, i + Len(w))
       IN  k <= Len(line) /\ line[k] \in Digit

\* Validator.extractNumbers: every /\d{1,4}/g match, padded to two digits
ValExtractNumbers(line) ==
  Let(MatchesFrom(line, 1, Digits14), LAMBDA ms :
  [k \in 1..Len(ms) |-> PadStart2(Sub(line, ms[k][1], ms[k][2]))])

\* Validator.validateNumber: /^\d{2,4}$/
validateNumber(num) ==
  /\ Len(num) \in 2..4
  /\ \A k \in 1..Len(num) : num[k] \in Digit

\* Validator.hasParleOrCandado: /\b(parle|candado)\b/i
hasParleOrCandado(line) ==
  \E i \in 1..Len(line) :
    \E w \in {<<"p", "a", "r", "l", "e">>, <<"c", "a", "n", "d", "a", "d", "o">>} :
      LitAtCI(line, i, w) /\ WordBoundary(line, i) /\ WordBoundary(line, i + Len(w))

\* Validator.validateParleCandado: the errors
validateParleCandado(line, lineNumber) ==
  IF Len(ValExtractNumbers(line)) < 2
  THEN <<"Linea " \o ToString(lineNumber) \o ": Parle/candado requiere al menos 2 numeros">>
  ELSE <<>>

\* Validator.validateBetLine: the errors. The amounts of a line come from
\* /\d+(?:[.,]\d+)?/g, which has no sign, so no amount is negative.
validateBetLine(line, lineNumber) ==
  Let(ValExtractNumbers(line), LAMBDA numbers :
  (IF ~hasNumbers(line)
   THEN <<"Linea " \o ToString(lineNumber) \o ": No se encontraron numeros">>
   ELSE <<>>)
  \o Flatten([k \in 1..Len(numbers) |->
       IF validateNumber(numbers[k]) THEN <<>>
       ELSE <<"Linea " \o ToString(lineNumber) \o ": Numero invalido: "
              \o Str(numbers[k])>>])
  \o (IF hasParleOrCandado(line) THEN validateParleCandado(line, lineNumber) ELSE <<>>))

\* Validator.validateLine: the errors
validateLine(line, lineNumber) ==
  IF Trim(line) = <<>> THEN <<>>
  ELSE IF isTotalLine(line)
  THEN IF validateTotalLine(line) THEN <<>>
       ELSE <<"Linea " \o ToString(lineNumber) \o ": Formato de total invalido">>
  ELSE IF isNombreJugador(line) THEN <<>>
  ELSE validateBetLine(line, lineNumber)

\* text.split('\n').filter(l => l.trim())
NonBlankLines(text) ==
  SelectSeq(Split(text, NL), LAMBDA l : Trim(l) # <<>>)

\* Validator.validateGlobal: the errors
validateGlobal(text, c) ==
  Let(SelectSeq(NonBlankLines(text), isNombreJugador), LAMBDA jugadores :
  IF Len(jugadores) > c.maxJugadores
  THEN <<"Demasiados jugadores: " \o ToString(Len(jugadores)) \o " (maximo: "
         \o ToString(c.maxJugadores) \o ")">>
  ELSE <<>>)

\* Validator.validateSyntax: valid and errors
validateSyntax(text, c) ==
  Let(NonBlankLines(text), LAMBDA lines :
  Let(IF Len(lines) = 0 THEN <<"Texto vacio">>
      ELSE Flatten([k \in 1..Len(lines) |-> validateLine(lines[k], k)])
           \o validateGlobal(text, c), LAMBDA errors :
  [valid |-> errors = <<>>, errors |-> errors]))

\* an optional integer (a line number, a count) inside a template string
CountStr(n) == IF n.k = "num" THEN ToString(n.v) ELSE "undefined"

TiposApuesta == {"fijo", "corrido", "parle", "centena", "candado", "especial"}

\* Validator.validateDetalle: the errors
validateDetalle(detalle, c) ==
  (IF detalle.tipo \notin TiposApuesta
   THEN <<"Tipo de apuesta invalido: " \o detalle.tipo>> ELSE <<>>)
  \o (IF Len(detalle.numeros) = 0 THEN <<"Sin numeros en la apuesta">>
      ELSE Flatten([k \in 1..Len(detalle.numeros) |->
             IF validateNumber(detalle.numeros[k]) THEN <<>>
             ELSE <<"Numero invalido: " \o Str(detalle.numeros[k])>>]))
  \o (IF IsNaN(detalle.monto) THEN <<"Monto invalido">>
      ELSE IF NumLt(detalle.monto, Num(0)) /\ ~c.allowNegative
      THEN <<"Monto negativo: " \o NumStr(detalle.monto)>>
      ELSE <<>>)
  \o (IF IsNaN(detalle.montoUnitario) THEN <<"Monto unitario invalido">> ELSE <<>>)
  \o (IF detalle.tipo = "parle" /\ detalle.combinaciones.k = "null"
      THEN <<"Parle sin numero de combinaciones">>
      ELSE IF detalle.tipo = "candado" /\ detalle.combinaciones.k = "null"
      THEN <<"Candado sin numero de combinaciones">>
      ELSE IF detalle.tipo = "centena"
              /\ \E k \in 1..Len(detalle.numeros) : Len(detalle.numeros[k]) # 3
      THEN <<"Centenas invalidas">>
      ELSE <<>>)

\* Validator.validateJugada: valid and errors
validateJugada(jugada, c) ==
  Let(AbsDiff(jugada.totalCalculado, jugada.totalDeclarado), LAMBDA difference :
  Let((IF NumLt(jugada.totalCalculado, Num(0)) /\ ~c.allowNegative
       THEN <<"Total calculado negativo">> ELSE <<>>)
      \o Flatten([k \in 1..Len(jugada.detalles) |->
           Let(validateDetalle(jugada.detalles[k], c), LAMBDA es :
           [e \in 1..Len(es) |->
              "Detalle linea " \o CountStr(jugada.detalles[k].lineaNumero)
              \o ": " \o es[e]])])
      \o (IF /\ jugada.totalDeclarado.k # "null"
             /\ NumGt(difference, Num(1))
             /\ c.validateTotals
             /\ ~NumLt(difference, Num(100))
          THEN <<"Diferencia entre total calculado ("
                 \o toFixed2(jugada.totalCalculado) \o ") y declarado ("
                 \o toFixed2(jugada.totalDeclarado) \o "): "
                 \o toFixed2(difference)>>
          ELSE <<>>), LAMBDA errors :
  [valid |-> errors = <<>>, errors |-> errors]))

(***************************************************************************)
(* BasePlugin (src/plugins/base-plugin)                                    *)
(***************************************************************************)
\* /\b\d{1,4}\b/g at position i: a whole run of one to four digits
WholeDigits14(s, i) ==
  Let(DigitRun(s, i), LAMBDA r :
  IF r >= 1 /\ r <= 4 /\ WordBoundary(s, i) /\ WordBoundary(s, i + r)
  THEN i + r ELSE 0)

\* BasePlugin.extractNumbers
extractNumbers(text) == NumbersOf(text, MatchesFrom(text, 1, WholeDigits14))

\* BasePlugin.createDetalle; combinaciones comes from extras
createDetalle(tipo, numeros, montoUnitario, lineaOriginal, lineaNumero, combinaciones) ==
  [ tipo |-> tipo,
    numeros |-> numeros,
    monto |-> NumTimes(Len(numeros), montoUnitario),
    montoUnitario |-> montoUnitario,
    lineaOriginal |-> lineaOriginal,
    lineaNumero |-> lineaNumero,
    combinaciones |-> combinaciones ]

\* detalles.reduce((sum, d) => sum + d.monto, 0)
RECURSIVE SumMonto(_)
SumMonto(detalles) ==
  IF Len(detalles) = 0 THEN Num(0)
  ELSE NumAdd(SumMonto(SubSeq(detalles, 1, Len(detalles) - 1)),
              detalles[Len(detalles)].monto)

\* totalDeclarado === null || Math.abs(totalCalculado - totalDeclarado) < 0.01
TotalsAgree(totalCalculado, totalDeclarado) ==
  \/ totalDeclarado.k = "null"
  \/ NumLt(AbsDiff(totalCalculado, totalDeclarado), Num(1))

\* BasePlugin.createJugada
createJugada(jugador, detalles, totalDeclarado, lineas) ==
  Let(SumMonto(detalles), LAMBDA totalCalculado :
  [ jugador |-> jugador,
    totalCalculado |-> totalCalculado,
    totalDeclarado |-> totalDeclarado,
    lineas |-> lineas,
    detalles |-> detalles,
    isValid |-> TotalsAgree(totalCalculado, totalDeclarado),
    metadata |-> [enriched |-> FALSE, bloqueIndex |-> Null] ])

(***************************************************************************)
(* The bet patterns (APUESTA_PATTERNS). A match is the sequence of its     *)
(* groups, each a <<start, position after>> pair; no match is <<>>.        *)
(***************************************************************************)
Group(s, g) == Sub(s, g[1], g[2])

\* the positions where (\d{2}(?:\s+\d{2})*) that starts at i can end
RECURSIVE PairsEnds(_, _)
PairsEnds(s, i) ==
  IF i + 1 <= Len(s) /\ s[i] \in Digit /\ s[i + 1] \in Digit
  THEN {i + 2} \cup (LET k == SkipSpace(s, i + 2)
                     IN  IF k > i + 2 THEN PairsEnds(s, k) ELSE {})
  ELSE {}

\* the leftmost match of (\d{2}(?:\s+\d{2})*) followed by Rest
PairsThen(s, Rest(_, _)) ==
  LET ok(i) == {j \in PairsEnds(s, i) : Rest(s, j) # <<>>}
      starts == {i \in 1..Len(s) : ok(i) # {}}
  IN  IF starts = {} THEN <<>>
      ELSE LET i == CHOOSE a \in starts : \A b \in starts : a <= b
               j == CHOOSE a \in ok(i) : \A b \in ok(i) : a >= b
           IN  <<(<<i, j>>)>> \o Rest(s, j)

\* \s+con\s+(\d+(?:[.,]\d+)?)
ConTail(s, j) ==
  Let(SpacedWordAmount(s, j, <<"c", "o", "n">>), LAMBDA c :
  IF c[2] # 0 THEN <<c>> ELSE <<>>)

\* \s+con\s+(\d+(?:[.,]\d+)?)\s+y\s+(\d+(?:[.,]\d+)?)
ConYTail(s, j) ==
  Let(SpacedWordAmount(s, j, <<"c", "o", "n">>), LAMBDA c :
  Let(IF c[2] # 0 THEN SpacedWordAmount(s, c[2], <<"y">>) ELSE <<0, 0>>,
      LAMBDA y :
  IF y[2] # 0 THEN <<c, y>> ELSE <<>>))

\* \s+con\s+(\d+(?:[.,]\d+)?)\s+p\s*(\d+(?:[.,]\d+)?)
ConPTail(s, j) ==
  Let(SpacedWordAmount(s, j, <<"c", "o", "n">>), LAMBDA c :
  Let(SkipSpace(s, c[2]), LAMBDA k :
  Let(AmountEnd(s, SkipSpace(s, k + 1)), LAMBDA e :
  IF c[2] # 0 /\ k > c[2] /\ LitAtCI(s, k, <<"p">>) /\ e # 0
  THEN <<c, <<SkipSpace(s, k + 1), e>> >> ELSE <<>>)))

\* APUESTA_PATTERNS.FIJO.pattern
FIJO(s) == PairsThen(s, ConTail)

\* APUESTA_PATTERNS.FIJO_CORRIDO.pattern
FIJO_CORRIDO(s) == PairsThen(s, ConYTail)

\* APUESTA_PATTERNS.PARLE_COMPUESTO.pattern
PARLE_COMPUESTO(s) == PairsThen(s, ConPTail)

(***************************************************************************)
(* Regular expressions with the g flag keep lastIndex (0-based) between    *)
(* calls of test: the search starts there, a match leaves lastIndex after  *)
(* the match and a failure resets it to 0.                                 *)
(***************************************************************************)
TestG(s, lastIndex, MatchEnd(_, _)) ==
  LET start == IF lastIndex > Len(s) THEN 0 ELSE FindFrom(s, lastIndex + 1, MatchEnd)
  IN  IF start = 0 THEN [found |-> FALSE, lastIndex |-> 0]
      ELSE [found |-> TRUE, lastIndex |-> MatchEnd(s, start) - 1]

\* String.prototype.matchAll(regex): the matches of a clone of the regex
\* that starts at the regex's own lastIndex
MatchAllG(s, lastIndex, MatchEnd(_, _)) == MatchesFrom(s, lastIndex + 1, MatchEnd)

(***************************************************************************)
(* The outcome of a plugin's process: kind is "jugada" (a Jugada is        *)
(* returned), "null" (a falsy value is returned) or "throw"                *)
(***************************************************************************)
NoJugada == createJugada(<<>>, <<>>, Null, <<>>)
Returned(jugada) == [kind |-> "jugada", jugada |-> jugada, message |-> ""]
ReturnedNull == [kind |-> "null", jugada |-> NoJugada, message |-> ""]
Thrown(message) == [kind |-> "throw", jugada |-> NoJugada, message |-> message]

\* BasePlugin.ensureInitialized: the message of the error it throws
NotInitialized(name) == "Plugin " \o name \o " no esta inicializado"

(***************************************************************************)
(* BasicBetPlugin (src/plugins/default-plugins)                            *)
(***************************************************************************)
\* /\d{2,}/.test(linea)
HasTwoDigits(linea) == \E i \in 1..Len(linea) : DigitRun(linea, i) >= 2

\* BasicBetPlugin.processLine
processLine(linea, lineNumber, context) ==
  Let(FIJO(linea), LAMBDA fijoMatch :
  Let(FIJO_CORRIDO(linea), LAMBDA fijoCorridoMatch :
  Let((IF fijoMatch = <<>> THEN <<>>
       ELSE Let(extractNumbers(Group(linea, fijoMatch[1])), LAMBDA numeros :
            Let(Amount(Group(linea, fijoMatch[2])), LAMBDA monto :
            IF Len(numeros) > 0 /\ ~IsNaN(monto)
            THEN <<createDetalle("fijo", numeros, monto, linea,
                                 Num(lineNumber), Null)>>
            ELSE <<>>)))
      \o
      (IF fijoCorridoMatch = <<>> THEN <<>>
       ELSE Let(extractNumbers(Group(linea, fijoCorridoMatch[1])), LAMBDA numeros :
            Let(Amount(Group(linea, fijoCorridoMatch[2])), LAMBDA montoFijo :
            Let(Amount(Group(linea, fijoCorridoMatch[3])), LAMBDA montoCorrido :
            (IF Len(numeros) > 0 /\ ~IsNaN(montoFijo)
             THEN <<createDetalle("fijo", numeros, montoFijo, linea,
                                  Num(lineNumber), Null)>>
             ELSE <<>>)
            \o (IF Len(numeros) > 0 /\ ~IsNaN(montoCorrido)
                THEN <<createDetalle("corrido", numeros, montoCorrido, linea,
                                     Num(lineNumber), Null)>>
                ELSE <<>>))))), LAMBDA detalles :
  IF Len(detalles) = 0 /\ HasTwoDigits(linea)
  THEN Let(extractNumbers(linea), LAMBDA numeros :
       IF Len(numeros) > 0
       THEN <<createDetalle("fijo", numeros, context.config.defaultMontoFijo,
                            linea, Num(lineNumber), Null)>>
       ELSE <<>>)
  ELSE detalles)))

\* BasicBetPlugin.process; initialized is the plugin's own flag
BasicBetProcess(text, context, initialized) ==
  IF ~initialized THEN Thrown(NotInitialized("basic-bet-plugin"))
  ELSE Returned(createJugada(
         context.jugador,
         Flatten([k \in 1..Len(context.lineas) |->
                    processLine(context.lineas[k], k, context)]),
         context.totalDeclarado,
         context.lineas))

(***************************************************************************)
(* ParlePlugin (src/plugins/default-plugins); lastIndex is the lastIndex   *)
(* of the shared PATTERNS.PARLE_EXPLICITO                                  *)
(***************************************************************************)
\* /parle\s+con/i
ParleCon(text) ==
  \E i \in 1..Len(text) :
    /\ LitAtCI(text, i, <<"p", "a", "r", "l", "e">>)
    /\ SkipSpace(text, i + 5) > i + 5
    /\ LitAtCI(text, SkipSpace(text, i + 5), <<"c", "o", "n">>)

\* /parle\s+con\s+(\d+(?:[.,]\d+)?)/i: the group of the leftmost match
ParleConAmount(text) ==
  LET at(i) == IF LitAtCI(text, i, <<"p", "a", "r", "l", "e">>)
               THEN SpacedWordAmount(text, i + 5, <<"c", "o", "n">>)
               ELSE <<0, 0>>
      starts == {i \in 1..Len(text) : at(i)[2] # 0}
  IN  IF starts = {} THEN <<>>
      ELSE <<at(CHOOSE a \in starts : \A b \in starts : a <= b)>>

\* /\bp\s*\d+$/
EndsWithP(text) ==
  \E i \in 1..Len(text) :
    /\ WordBoundary(text, i) /\ text[i] = "p"
    /\ Let(SkipSpace(text, i + 1), LAMBDA k :
       Let(DigitRun(text, k), LAMBDA r :
       r >= 1 /\ k + r = Len(text) + 1))

\* /\bp\s*(\d+(?:[.,]\d+)?)\s*$/i: the group of the leftmost match
InlineMatch(text) ==
  LET grp(i) == LET k == SkipSpace(text, i + 1) IN <<k, AmountEnd(text, k)>>
      starts == {i \in 1..Len(text) :
                   /\ WordBoundary(text, i) /\ ToLower(text[i]) = "p"
                   /\ grp(i)[2] # 0
                   /\ SkipSpace(text, grp(i)[2]) = Len(text) + 1}
  IN  IF starts = {} THEN <<>>
      ELSE <<grp(CHOOSE a \in starts : \A b \in starts : a <= b)>>

\* text.replace(/\bp\s*\d+\s*$/i, '')
WithoutInline(text) ==
  Let({i \in 1..Len(text) :
         /\ WordBoundary(text, i) /\ ToLower(text[i]) = "p"
         /\ Let(SkipSpace(text, i + 1), LAMBDA k :
            Let(DigitRun(text, k), LAMBDA r :
            r >= 1 /\ SkipSpace(text, k + r) = Len(text) + 1))}, LAMBDA starts :
  IF starts = {} THEN text
  ELSE Sub(text, 1, CHOOSE a \in starts : \A b \in starts : a <= b))

\* ParlePlugin.calculateCombinations
calculateCombinations(n) == IF n < 2 THEN 0 ELSE (n * (n - 1)) \div 2

\* ParlePlugin.canProcess: the answer and the lastIndex it leaves
ParleCanProcess(text, lastIndex) ==
  Let(TestG(text, lastIndex, PARLE_EXPLICITO), LAMBDA t :
  [can |-> t.found \/ ParleCon(text) \/ EndsWithP(text),
   lastIndex |-> t.lastIndex])

\* the pair of a PARLE_EXPLICITO match m, each number padded to two digits
ParlePair(text, m) ==
  Let(DigitRun(text, m[1]), LAMBDA r :
  << PadStart2(Sub(text, m[1], m[1] + r)),
     PadStart2(Sub(text, SkipSpace(text, SkipSpace(text, m[1] + r) + 1), m[2])) >>)

\* ParlePlugin.process: the outcome and the lastIndex it leaves;
\* defaultMonto is this.config?.defaultMontoFijo || 1
ParleProcess(text, context, initialized, lastIndex) ==
  IF ~initialized
  THEN [outcome |-> Thrown(NotInitialized("parle-plugin")), lastIndex |-> lastIndex]
  ELSE
  Let(MatchAllG(text, lastIndex, PARLE_EXPLICITO), LAMBDA parleMatches :
  Let(ParleConAmount(text), LAMBDA montoMatch :
  Let(IF montoMatch # <<>> THEN Amount(Group(text, montoMatch[1]))
      ELSE IF context.config.defaultMontoFijo.v = 0 THEN Num(100)
      ELSE context.config.defaultMontoFijo, LAMBDA monto :
  Let([k \in 1..Len(parleMatches) |->
         createDetalle("parle", ParlePair(text, parleMatches[k]), monto, text,
                       Null, Num(1))], LAMBDA explicitos :
  Let(InlineMatch(text), LAMBDA inlineMatch :
  Let(IF inlineMatch # <<>> THEN TestG(text, lastIndex, PARLE_EXPLICITO)
      ELSE [found |-> FALSE, lastIndex |-> lastIndex], LAMBDA t :
  Let(IF inlineMatch = <<>> \/ t.found THEN <<>>
      ELSE Let(extractNumbers(WithoutInline(text)), LAMBDA numeros :
           IF Len(numeros) >= 2
           THEN <<createDetalle("parle", numeros,
                                Amount(Group(text, inlineMatch[1])), text, Null,
                                Num(calculateCombinations(Len(numeros))))>>
           ELSE <<>>), LAMBDA inlines :
  Let(PARLE_COMPUESTO(text), LAMBDA compuestoMatch :
  Let(IF compuestoMatch = <<>> THEN <<>>
      ELSE Let(extractNumbers(Group(text, compuestoMatch[1])), LAMBDA numeros :
           Let(Amount(Group(text, compuestoMatch[2])), LAMBDA montoFijo :
           Let(Amount(Group(text, compuestoMatch[3])), LAMBDA montoParle :
           (IF Len(numeros) > 0 /\ ~IsNaN(montoFijo)
            THEN <<createDetalle("fijo", numeros, montoFijo, text, Null, Null)>>
            ELSE <<>>)
           \o (IF Len(numeros) >= 2 /\ ~IsNaN(montoParle)
               THEN <<createDetalle("parle", numeros, montoParle, text, Null,
                                    Num(calculateCombinations(Len(numeros))))>>
               ELSE <<>>)))), LAMBDA compuestos :
  [outcome |-> Returned(createJugada(context.jugador,
                 explicitos \o inlines \o compuestos,
                 context.totalDeclarado, context.lineas)),
   lastIndex |-> t.lastIndex])))))))))

(***************************************************************************)
(* Parser (src/src/parser.ts): the private helpers                         *)
(***************************************************************************)
Desconocido == <<"D", "e", "s", "c", "o", "n", "o", "c", "i", "d", "o">>

\* Parser.extractBloques
extractBloques(text) ==
  LET lines == Split(text, NL)
      st[i \in 0..Len(lines)] ==
        IF i = 0 THEN [bloques |-> <<>>, currentBloque |-> <<>>, inBloque |-> FALSE]
        ELSE LET p == st[i - 1]
                 line == lines[i]
                 trimmed == Trim(line)
                 pushed == IF Len(p.currentBloque) > 0
                           THEN Append(p.bloques, Join(p.currentBloque, NL))
                           ELSE p.bloques
             IN  IF trimmed = <<>>
                 THEN IF p.inBloque /\ Len(p.currentBloque) > 0
                      THEN [bloques |-> pushed, currentBloque |-> <<>>,
                            inBloque |-> FALSE]
                      ELSE p
                 ELSE IF isNombreJugador(trimmed) /\ ~p.inBloque
                 THEN [bloques |-> pushed, currentBloque |-> <<trimmed>>,
                       inBloque |-> TRUE]
                 ELSE [bloques |-> p.bloques,
                       currentBloque |-> Append(p.currentBloque, line),
                       inBloque |-> TRUE]
      last == st[Len(lines)]
      bloques == IF Len(last.currentBloque) > 0
                 THEN Append(last.bloques, Join(last.currentBloque, NL))
                 ELSE last.bloques
  IN  SelectSeq(bloques, LAMBDA b : Trim(b) # <<>>)

\* Parser.extractJugador
extractJugador(bloque) ==
  Let(Trim(Split(bloque, NL)[1]), LAMBDA firstLine :
  IF isNombreJugador(firstLine) THEN firstLine ELSE Desconocido)

\* \s*[:=]?\s*\$?\s*([\d.,]+) after the word total that starts at i: the
\* group, which is empty when there is no match
TotalGroup(s, i) ==
  Let(SkipSpace(s, i + 5), LAMBDA k1 :
  Let(SkipSpace(s, IF k1 <= Len(s) /\ s[k1] \in {":", "="} THEN k1 + 1 ELSE k1),
      LAMBDA k3 :
  Let(SkipSpace(s, IF k3 <= Len(s) /\ s[k3] = "$" THEN k3 + 1 ELSE k3),
      LAMBDA k5 :
  <<k5, SkipWhile(s, k5, Digit \cup {".", ","})>>)))

\* /total\s*[:=]?\s*\$?\s*([\d.,]+)/i: the group of the leftmost match
TotalMatch(s) ==
  Let({i \in 1..Len(s) :
         /\ LitAtCI(s, i, <<"t", "o", "t", "a", "l">>)
         /\ Let(TotalGroup(s, i), LAMBDA g : g[2] > g[1])}, LAMBDA starts :
  IF starts = {} THEN <<>>
  ELSE <<TotalGroup(s, CHOOSE a \in starts : \A b \in starts : a <= b)>>)

\* Parser.extractTotalDeclarado
extractTotalDeclarado(bloque) ==
  Let(TotalMatch(bloque), LAMBDA match :
  IF match = <<>> THEN Null ELSE Amount(Group(bloque, match[1])))

\* Parser.parseLinea: the source returns no detail for any line
parseLinea(linea, lineIndex, lastFijoMonto, lastCorridoMonto) == <<>>

\* bloque.split('\n').map(l => l.trim()).filter(l => l)
TrimmedLines(bloque) ==
  SelectSeq(Map(Split(bloque, NL), Trim), LAMBDA l : l # <<>>)

\* Parser.parseBloqueStandard: kinds tells for each line whether the loop
\* skips it ("name"), reads a total from it ("total") or parses it ("bet")
parseBloqueStandard(jugador, lineas, bloqueIndex, c) ==
  Let([i \in 1..Len(lineas) |->
         IF i = 1 /\ isNombreJugador(lineas[i]) THEN "name"
         ELSE IF TotalMatch(lineas[i]) # <<>> THEN "total" ELSE "bet"],
      LAMBDA kinds :
  Let({i \in 1..Len(lineas) : kinds[i] = "total"}, LAMBDA totals :
  Let(IF totals = {} THEN Null
      ELSE Let(lineas[CHOOSE a \in totals : \A b \in totals : a >= b],
               LAMBDA linea : Amount(Group(linea, TotalMatch(linea)[1]))),
      LAMBDA totalDeclarado :
  Let(Flatten([i \in 1..Len(lineas) |->
         IF kinds[i] # "bet" THEN <<>>
         ELSE parseLinea(lineas[i], i - 1, c.defaultMontoFijo,
                         c.defaultMontoCorrido)]), LAMBDA detalles :
  Let(SumMonto(detalles), LAMBDA totalCalculado :
  [ jugador |-> jugador,
    totalCalculado |-> totalCalculado,
    totalDeclarado |-> totalDeclarado,
    lineas |-> SelectSeq(lineas, LAMBDA l : ~isTotalLine(l)),
    detalles |-> detalles,
    isValid |-> TotalsAgree(totalCalculado, totalDeclarado),
    metadata |-> [enriched |-> FALSE, bloqueIndex |-> Null] ])))))

\* Parser.enrichJugada
enrichJugada(jugada, bloqueIndex) ==
  [jugada EXCEPT !.metadata = [enriched |-> TRUE, bloqueIndex |-> Num(bloqueIndex)]]

(***************************************************************************)
(* Plugins. A registered plugin is a record [name, priority, initialized]; *)
(* its behaviour follows from its name.  Besides BasicBetPlugin and        *)
(* ParlePlugin there are the "invalid-plugin" of the integration tests and *)
(* "faulty-plugin", a plain ProcessorPlugin object whose canProcess throws *)
(***************************************************************************)
BasicBetPlugin == [name |-> "basic-bet-plugin", priority |-> 50, initialized |-> FALSE]
ParlePlugin == [name |-> "parle-plugin", priority |-> 60, initialized |-> FALSE]
InvalidPlugin == [name |-> "invalid-plugin", priority |-> 100, initialized |-> FALSE]
FaultyPlugin == [name |-> "faulty-plugin", priority |-> 100, initialized |-> FALSE]
AutoCorrectPlugin ==
  [name |-> "auto-correct-plugin", priority |-> 100, initialized |-> FALSE]

PluginCatalog == {BasicBetPlugin, ParlePlugin, InvalidPlugin, FaultyPlugin}
\* the default plugins a parser may be given
DefaultCatalog == {BasicBetPlugin, ParlePlugin, AutoCorrectPlugin}

\* plugin.init is optional: the faulty plugin is a plain object without it
HasInit(plugin) == plugin.name # "faulty-plugin"

\* what InvalidPlugin.process returns
InvalidJugada ==
  [ jugador |-> <<>>,
    totalCalculado |-> Num(0 - 10000),
    totalDeclarado |-> Null,
    lineas |-> <<>>,
    detalles |-> <<>>,
    isValid |-> FALSE,
    metadata |-> [enriched |-> FALSE, bloqueIndex |-> Null] ]

\* plugin.canProcess(text): kind is "yes", "no" or "throw"
PluginCanProcess(plugin, text, lastIndex) ==
  IF plugin.name = "parle-plugin"
  THEN Let(ParleCanProcess(text, lastIndex), LAMBDA r :
       [kind |-> IF r.can THEN "yes" ELSE "no",
        message |-> "",
        lastIndex |-> r.lastIndex])
  ELSE IF plugin.name = "faulty-plugin"
  THEN [kind |-> "throw", message |-> "canProcess failed", lastIndex |-> lastIndex]
  ELSE [kind |-> "yes", message |-> "", lastIndex |-> lastIndex]

\* AutoCorrectPlugin.process: the corrected text is kept in a context that
\* nothing reads, and the jugada has no details
AutoCorrectProcess(text, context, initialized) ==
  IF ~initialized THEN Thrown(NotInitialized("auto-correct-plugin"))
  ELSE Returned(createJugada(context.jugador, <<>>, context.totalDeclarado,
                             context.lineas))

\* plugin.process(text, context): the outcome and the lastIndex it leaves
PluginProcess(plugin, text, context, lastIndex) ==
  IF plugin.name = "parle-plugin"
  THEN ParleProcess(text, context, plugin.initialized, lastIndex)
  ELSE IF plugin.name = "basic-bet-plugin"
  THEN [outcome |-> BasicBetProcess(text, context, plugin.initialized),
        lastIndex |-> lastIndex]
  ELSE IF plugin.name = "invalid-plugin"
  THEN [outcome |-> Returned(InvalidJugada), lastIndex |-> lastIndex]
  ELSE IF plugin.name = "auto-correct-plugin"
  THEN [outcome |-> AutoCorrectProcess(text, context, plugin.initialized),
        lastIndex |-> lastIndex]
  ELSE [outcome |-> ReturnedNull, lastIndex |-> lastIndex]

\* the plugin loop of Parser.parseBloque from the i-th plugin on
RECURSIVE TryPlugins(_, _, _, _, _, _)
TryPlugins(ps, i, bloque, bloqueIndex, context, lastIndex) ==
  IF i > Len(ps)
  THEN [outcome |-> ReturnedNull, lastIndex |-> lastIndex]
  ELSE Let(PluginCanProcess(ps[i], bloque, lastIndex), LAMBDA can :
       IF can.kind = "throw"
       THEN [outcome |-> Thrown(can.message), lastIndex |-> can.lastIndex]
       ELSE IF can.kind = "no"
       THEN TryPlugins(ps, i + 1, bloque, bloqueIndex, context, can.lastIndex)
       ELSE Let(PluginProcess(ps[i], bloque, context, can.lastIndex), LAMBDA run :
            IF run.outcome.kind = "null"
            THEN TryPlugins(ps, i + 1, bloque, bloqueIndex, context, run.lastIndex)
            ELSE IF run.outcome.kind = "throw" THEN run
            ELSE [outcome |-> Returned(enrichJugada(run.outcome.jugada, bloqueIndex)),
                  lastIndex |-> run.lastIndex]))

\* the pluginContext of Parser.parseBloque
PluginContextOf(bloque, lineas, jugador, c) ==
  [ config |-> c,
    jugador |-> jugador,
    totalDeclarado |-> extractTotalDeclarado(bloque),
    lineas |-> SelectSeq(lineas,
                 LAMBDA l : ~isNombreJugador(l) /\ ~isTotalLine(l)) ]

\* Parser.parseBloque: the outcome and the lastIndex it leaves
parseBloque(bloque, bloqueIndex, ps, c, lastIndex) ==
  Let(TrimmedLines(bloque), LAMBDA lineas :
  Let(extractJugador(bloque), LAMBDA jugador :
  Let(TryPlugins(ps, 1, bloque, bloqueIndex,
        PluginContextOf(bloque, lineas, jugador, c), lastIndex), LAMBDA tried :
  IF tried.outcome.kind = "null"
  THEN [outcome |-> Returned(parseBloqueStandard(jugador, lineas, bloqueIndex, c)),
        lastIndex |-> tried.lastIndex]
  ELSE tried)))

(***************************************************************************)
(* hashString (src/src/parser.ts) and the cache key                        *)
(***************************************************************************)
\* the characters with codes 32 to 95, in order
Printable ==
  << " ", "!", "\"", "#", "$", "%", "&", "'", "(", ")", "*", "+", ",", "-",
     ".", "/", "0", "1", "2", "3", "4", "5", "6", "7", "8", "9", ":", ";",
     "<", "=", ">", "?", "@", "A", "B", "C", "D", "E", "F", "G", "H", "I",
     "J", "K", "L", "M", "N", "O", "P", "Q", "R", "S", "T", "U", "V", "W",
     "X", "Y", "Z", "[", "\\", "]", "^", "_" >>

\* the characters with codes 97 to 122, in order
LowerCase ==
  << "a", "b", "c", "d", "e", "f", "g", "h", "i", "j", "k", "l", "m", "n",
     "o", "p", "q", "r", "s", "t", "u", "v", "w", "x", "y", "z" >>

\* String.prototype.charCodeAt
charCodeAt(c) ==
  IF c = NL THEN 10 ELSE IF c = CR THEN 13 ELSE IF c = TAB THEN 9
  ELSE IF \E k \in 1..Len(Printable) : Printable[k] = c
  THEN 31 + (CHOOSE k \in 1..Len(Printable) : Printable[k] = c)
  ELSE IF \E k \in 1..Len(LowerCase) : LowerCase[k] = c
  THEN 96 + (CHOOSE k \in 1..Len(LowerCase) : LowerCase[k] = c)
  ELSE IF c = "{" THEN 123 ELSE IF c = "|" THEN 124 ELSE IF c = "}" THEN 125
  ELSE 126

\* Number.prototype.toString(36) of a natural number
RECURSIVE ToBase36(_)
ToBase36(n) ==
  LET digit(d) == IF d < 10 THEN DigitChar(d) ELSE LowerCase[d - 9]
  IN  IF n < 36 THEN digit(n) ELSE ToBase36(n \div 36) \o digit(n % 36)

\* a 32-bit word as its four bytes, the most significant first
Word(n) == <<0, 0, n \div 256, n % 256>>

\* the sum of two words modulo 2^32
WordAdd(a, b) ==
  LET s4 == a[4] + b[4]
      s3 == a[3] + b[3] + s4 \div 256
      s2 == a[2] + b[2] + s3 \div 256
      s1 == a[1] + b[1] + s2 \div 256
  IN  <<s1 % 256, s2 % 256, s3 % 256, s4 % 256>>

\* the product of two words modulo 2^32
WordTimes(a, b) ==
  LET p4 == a[4] * b[4]
      p3 == a[3] * b[4] + a[4] * b[3] + p4 \div 256
      p2 == a[2] * b[4] + a[3] * b[3] + a[4] * b[2] + p3 \div 256
      p1 == a[1] * b[4] + a[2] * b[3] + a[3] * b[2] + a[4] * b[1] + p2 \div 256
  IN  <<p1 % 256, p2 % 256, p3 % 256, p4 % 256>>

\* 31^n modulo 2^32
RECURSIVE Pow31(_)
Pow31(n) ==
  IF n = 0 THEN Word(1)
  ELSE Let(Pow31(n \div 2), LAMBDA half :
       Let(WordTimes(half, half), LAMBDA square :
       IF n % 2 = 1 THEN WordTimes(square, Word(31)) ELSE square))

\* hashString's loop, hash = ((hash << 5) - hash) + char; hash = hash & hash,
\* over the characters lo .. hi, starting from hash 0. One round makes the
\* hash 31 * hash + char modulo 2^32, so the loop over a text u followed by v
\* gives hash(u) * 31^Len(v) + hash(v)
RECURSIVE HashRange(_, _, _)
HashRange(str, lo, hi) ==
  IF lo > hi THEN Word(0)
  ELSE IF lo = hi THEN Word(charCodeAt(str[lo]))
  ELSE LET mid == (lo + hi) \div 2
       IN  WordAdd(WordTimes(HashRange(str, lo, mid), Pow31(hi - mid)),
                   HashRange(str, mid + 1, hi))

\* a word as a signed 32-bit integer in base 36; the word is taken as its
\* two 16-bit halves h
Base36Signed(h) ==
  Let(h[1] >= 32768, LAMBDA negative :
  \* the halves of the magnitude
  Let(IF negative THEN (65536 - h[2]) % 65536 ELSE h[2], LAMBDA low :
  Let(IF negative THEN 65535 - h[1] + (IF h[2] = 0 THEN 1 ELSE 0) ELSE h[1],
      LAMBDA high :
  Let((high % 36) * 65536 + low, LAMBDA rest :
  Let((high \div 36) * 65536 + (rest \div 36), LAMBDA quotient :
  (IF negative THEN "-" ELSE "")
  \o (IF quotient = 0 THEN "" ELSE ToBase36(quotient))
  \o ToBase36(rest % 36))))))

\* hashString: the signed 32-bit hash in base 36
hashString(str) ==
  Let(HashRange(str, 1, Len(str)), LAMBDA w :
  Base36Signed(<<256 * w[1] + w[2], 256 * w[3] + w[4]>>))

\* `parse:${hashString(text)}:${JSON.stringify(this.config)}`
CacheKey(text, c) == [hash |-> hashString(text), config |-> c]

(***************************************************************************)
(* CacheManager (src/src/utils/cache.ts). cm is [entries, stats]: entries  *)
(* is the Map in insertion order, each [key, value, timestamp, ttl, hits]; *)
(* cc is the cache configuration [enabled, ttl, maxSize]; t is Date.now()  *)
(***************************************************************************)
EmptyCache ==
  [entries |-> <<>>, stats |-> [hits |-> 0, misses |-> 0, size |-> 0, evictions |-> 0]]

\* a cache whose entries never expire
NeverExpired(entry, t) == FALSE

\* Date.now() > entry.timestamp + entry.ttl
Expired(entry, t) == t > entry.timestamp + entry.ttl

\* CacheManager.cleanupExpired
cleanupExpired(cm, t) ==
  LET kept == SelectSeq(cm.entries, LAMBDA e : ~Expired(e, t))
  IN  [entries |-> kept,
       stats |-> [cm.stats EXCEPT !.size = @ - (Len(cm.entries) - Len(kept))]]

\* the position of key in the Map, or 0
IndexOfKey(entries, key) ==
  IF \E k \in 1..Len(entries) : entries[k].key = key
  THEN CHOOSE k \in 1..Len(entries) : entries[k].key = key
  ELSE 0

\* the entries without the one at position k
RemoveAt(entries, k) == SubSeq(entries, 1, k - 1) \o SubSeq(entries, k + 1, Len(entries))

\* CacheManager.get: found, the value's position and the cache afterwards
CacheGet(cm, key, t, cc) ==
  LET k == IndexOfKey(cm.entries, key)
  IN  IF ~cc.enabled THEN [found |-> FALSE, at |-> 0, cm |-> cm]
      ELSE IF k = 0
      THEN [found |-> FALSE, at |-> 0,
            cm |-> [cm EXCEPT !.stats.misses = @ + 1]]
      ELSE IF Expired(cm.entries[k], t)
      THEN [found |-> FALSE, at |-> 0,
            cm |-> [entries |-> RemoveAt(cm.entries, k),
                    stats |-> [cm.stats EXCEPT !.misses = @ + 1, !.size = @ - 1]]]
      ELSE [found |-> TRUE, at |-> k,
            cm |-> [cm EXCEPT !.stats.hits = @ + 1, !.entries[k].hits = @ + 1]]

\* a set that evicts nothing
NoEviction(cm) == cm

\* CacheManager.evictLeastUsed: the first entry with the fewest hits goes
evictLeastUsed(cm) ==
  IF Len(cm.entries) = 0 THEN cm
  ELSE LET least == CHOOSE k \in 1..Len(cm.entries) :
                      /\ \A m \in 1..Len(cm.entries) :
                           cm.entries[k].hits <= cm.entries[m].hits
                      /\ \A m \in 1..(k - 1) :
                           cm.entries[m].hits > cm.entries[k].hits
       IN  [entries |-> RemoveAt(cm.entries, least),
            stats |-> [cm.stats EXCEPT !.evictions = @ + 1, !.size = @ - 1]]

\* CacheManager.set
CacheSet(cm, key, value, t, cc) ==
  IF ~cc.enabled THEN cm
  ELSE LET cleaned == cleanupExpired(cm, t)
           room == IF Len(cleaned.entries) >= cc.maxSize
                   THEN evictLeastUsed(cleaned) ELSE cleaned
           entry == [key |-> key, value |-> value, timestamp |-> t,
                     ttl |-> cc.ttl, hits |-> 0]
           k == IndexOfKey(room.entries, key)
           entries == IF k = 0 THEN Append(room.entries, entry)
                      ELSE [room.entries EXCEPT ![k] = entry]
       IN  [entries |-> entries,
            stats |-> [room.stats EXCEPT !.size = Len(entries)]]

\* a delete that leaves stats.size as it was
DeleteKeepsSize(cm, key) ==
  LET k == IndexOfKey(cm.entries, key)
  IN  IF k = 0 THEN cm ELSE [cm EXCEPT !.entries = RemoveAt(cm.entries, k)]

\* CacheManager.delete: the cache afterwards; it returns whether key was there
CacheDelete(cm, key) ==
  LET k == IndexOfKey(cm.entries, key)
      entries == RemoveAt(cm.entries, k)
  IN  IF k = 0 THEN cm
      ELSE [entries |-> entries, stats |-> [cm.stats EXCEPT !.size = Len(entries)]]

\* CacheManager.clear
CacheClear(cm) ==
  [entries |-> <<>>, stats |-> [cm.stats EXCEPT !.size = 0, !.evictions = 0]]

(***************************************************************************)
(* Parser.parse (src/src/parser.ts). A ParseResult keeps success, jugadas, *)
(* summary and metadata.errors; warnings, stats, confidence and timings    *)
(* are left out.                                                           *)
(***************************************************************************)
\* the result built in the catch block of parse
FailureResult(message, text) ==
  [ success |-> FALSE,
    jugadas |-> <<>>,
    summary |-> [ totalJugadas |-> 0, totalCalculado |-> Num(0),
                  totalDeclarado |-> Num(0), difference |-> Num(0),
                  isValid |-> FALSE ],
    metadata |-> [ originalLength |-> Len(text), processedLength |-> 0,
                   errors |-> <<message>> ] ]

\* j.totalDeclarado || 0
OrZero(x) == IF x.k = "num" THEN x ELSE Num(0)

\* nums.reduce((sum, n) => new Decimal(sum).plus(n).toNumber(), 0)
RECURSIVE SumNums(_)
SumNums(nums) ==
  IF Len(nums) = 0 THEN Num(0)
  ELSE NumAdd(SumNums(SubSeq(nums, 1, Len(nums) - 1)), nums[Len(nums)])

TotalCalculadoOf(j) == j.totalCalculado
TotalDeclaradoOf(j) == OrZero(j.totalDeclarado)

\* the result built at the end of the try block of parse
SuccessResult(jugadas, errors, text, preprocessed) ==
  Let(SumNums(Map(jugadas, TotalCalculadoOf)), LAMBDA totalCalculado :
  Let(SumNums(Map(jugadas, TotalDeclaradoOf)), LAMBDA totalDeclarado :
  Let(AbsDiff(totalCalculado, totalDeclarado), LAMBDA difference :
  [ success |-> Len(errors) = 0,
    jugadas |-> jugadas,
    summary |-> [ totalJugadas |-> Len(jugadas),
                  totalCalculado |-> totalCalculado,
                  totalDeclarado |-> totalDeclarado,
                  difference |-> difference,
                  isValid |-> NumLt(difference, Num(1)) ],
    metadata |-> [ originalLength |-> Len(text),
                   processedLength |-> Len(preprocessed),
                   errors |-> errors ] ])))

\* an error message that does not tell which block failed
BlockErrorUnnumbered(i, message) == "Error procesando bloque: " \o message

\* errorMsg of the catch in the block loop, for the i-th block (index i - 1)
BlockError(i, message) ==
  "Error procesando bloque " \o ToString(i) \o ": " \o message

\* the block loop of parse from the i-th block on. acc carries jugadas,
\* errors, lastIndex, thrown (the message of every exception thrown so far)
\* and fatal (the message of the ParserError rethrown in strict mode, or "")
RECURSIVE ProcessBloques(_, _, _, _, _)
ProcessBloques(bloques, i, ps, c, acc) ==
  IF i > Len(bloques) \/ acc.fatal # "" THEN acc
  ELSE Let(parseBloque(bloques[i], i - 1, ps, c, acc.lastIndex), LAMBDA run :
       IF run.outcome.kind = "jugada"
       THEN Let(run.outcome.jugada, LAMBDA jugada :
            Let(validateJugada(jugada, c), LAMBDA jugadaValidation :
            ProcessBloques(bloques, i + 1, ps, c,
              [acc EXCEPT
                 !.jugadas = Append(@, jugada),
                 !.lastIndex = run.lastIndex,
                 !.errors = IF ~jugadaValidation.valid /\ c.strictMode
                            THEN @ \o [e \in 1..Len(jugadaValidation.errors) |->
                                         "[" \o Str(jugada.jugador) \o "] "
                                         \o jugadaValidation.errors[e]]
                            ELSE @])))
       ELSE Let(BlockError(i, run.outcome.message), LAMBDA errorMsg :
            ProcessBloques(bloques, i + 1, ps, c,
              [acc EXCEPT
                 !.lastIndex = run.lastIndex,
                 !.errors = Append(@, errorMsg),
                 !.thrown = IF c.strictMode
                            THEN @ \o <<run.outcome.message, errorMsg>>
                            ELSE Append(@, run.outcome.message),
                 !.fatal = IF c.strictMode THEN errorMsg ELSE ""])))

(***************************************************************************)
(* The texts, lines and configurations of the calls                        *)
(***************************************************************************)
\* the texts handed to parse and extractStructure
TextTotal ==
  << "J", "u", "a", "n", "\n", "0", "5", " ", "1", "0", " ", "c", "o",
     "n", " ", "2", "0", " ", "y", " ", "3", "0", "\n", "T", "o", "t",
     "a", "l", ":", " ", "4", "0" >>
TextEmpty == <<>>
TextThree ==
  << "J", "u", "a", "n", "\n", "0", "5", " ", "c", "o", "n", " ", "1",
     "0", "\n", "\n", "A", "n", "a", "\n", "1", "0", " ", "c", "o",
     "n", " ", "2", "0", "\n", "\n", "E", "v", "a", "\n", "1", "5",
     " ", "c", "o", "n", " ", "3", "0" >>
TextParle ==
  << "0", "5", " ", "1", "0", " ", "1", "5", " ", "p", "5" >>
TextPairs ==
  << "2", "5", "*", "3", "3", " ", "4", "4", "*", "5", "5" >>
TextPair ==
  << "2", "5", "*", "3", "3" >>
\* two pairs, one with a number of four digits, then a line of plain numbers
TextWide ==
  << "2", "5", "*", "3", "3", " ", "1", "2", "3", "4", "*", "5", "6", "\n",
     "1", "2", " ", "3", "4" >>
\* two texts with the same hashString
TextAa == << "A", "a" >>
TextBB == << "B", "B" >>
Texts ==
  {TextTotal, TextEmpty, TextThree, TextParle, TextPairs, TextPair, TextAa, TextBB}
\* the texts handed to parse by a parser with default plugins
DefaultsTexts == {TextWide, TextPair, TextTotal}
\* the texts handed to extractStructure
StructureTexts == {TextEmpty, TextThree}

\* the lines handed to a plugin directly
LineFijoCorrido ==
  << "0", "5", " ", "1", "0", " ", "c", "o", "n", " ", "2", "0", " ",
     "y", " ", "3", "0" >>
LineFijo ==
  << "0", "5", " ", "1", "0", " ", "c", "o", "n", " ", "2", "0" >>
LinePair == TextPair
Lines == {LineFijoCorrido, LineFijo, LinePair, TextParle}

\* DEFAULT_CONFIG, amounts in hundredths
DEFAULT_CONFIG ==
  [ strictMode |-> FALSE, autoExpand |-> TRUE, validateTotals |-> TRUE,
    maxJugadores |-> 100, decimalSeparator |-> ".", allowNegative |-> FALSE,
    defaultMontoFijo |-> Num(100), defaultMontoCorrido |-> Num(0),
    timeout |-> 5000,
    cache |-> [enabled |-> TRUE, ttl |-> 300000, maxSize |-> 1000] ]

\* new Parser({ strictMode: true, cache: { enabled: false } })
StrictConfig == [DEFAULT_CONFIG EXCEPT !.strictMode = TRUE, !.cache.enabled = FALSE]

\* new Parser({ maxJugadores: 2, timeout: 1, cache: { ttl: 0, maxSize: 1 } })
SmallConfig ==
  [DEFAULT_CONFIG EXCEPT !.maxJugadores = 2, !.timeout = 1, !.cache.ttl = 0,
                         !.cache.maxSize = 1]

\* new Parser({ maxJugadores: 0, timeout: 0, cache: { enabled: false } })
ZeroConfig ==
  [DEFAULT_CONFIG EXCEPT !.maxJugadores = 0, !.timeout = 0,
                         !.cache.enabled = FALSE]

\* the configurations a parser is constructed with
Configs == {DEFAULT_CONFIG, StrictConfig, SmallConfig, ZeroConfig}

\* the first steps of the try block of parse on a text: the preprocessed
\* text, its syntax validation and its blocks
Prepare(text, c) ==
  Let(process(text, c), LAMBDA preprocessed :
  [text |-> text, config |-> c, preprocessed |-> preprocessed,
   validation |-> validateSyntax(preprocessed, c),
   bloques |-> extractBloques(preprocessed)])

\* Prepare on the texts and configurations of the calls, computed once
PreparedPool ==
  {Prepare(text, c) : text \in Texts \cup DefaultsTexts, c \in Configs}

\* Prepare(text, c), taken from the pool
Prepared(text, c) ==
  CHOOSE p \in PreparedPool : p.text = text /\ p.config = c

\* the message of the ParserError thrown when there are more blocks than
\* config.maxJugadores
TooMany(n, max) ==
  "Numero maximo de jugadores excedido: " \o ToString(n) \o " > " \o ToString(max)

\* what the try block of parse leaves behind when it is abandoned
NoResult == [success |-> FALSE, jugadas |-> <<>>]

\* the try block of parse after the cache lookup: the result it returns, or
\* fatal, the message of the exception that leaves it (else ""); thrown, the
\* message of every exception thrown on the way; and the lastIndex left
ParseText(text, ps, c, lastIndex) ==
  Let(Prepared(text, c), LAMBDA prepared :
  IF ~prepared.validation.valid /\ c.strictMode
  THEN [result |-> NoResult, fatal |-> "Validacion de sintaxis fallida",
        thrown |-> <<"Validacion de sintaxis fallida">>,
        lastIndex |-> lastIndex]
  ELSE IF Len(prepared.bloques) > c.maxJugadores
  THEN [result |-> NoResult,
        fatal |-> TooMany(Len(prepared.bloques), c.maxJugadores),
        thrown |-> <<TooMany(Len(prepared.bloques), c.maxJugadores)>>,
        lastIndex |-> lastIndex]
  ELSE Let(ProcessBloques(prepared.bloques, 1, ps, c,
             [jugadas |-> <<>>, errors |-> <<>>, lastIndex |-> lastIndex,
              thrown |-> <<>>, fatal |-> ""]), LAMBDA done :
       IF done.fatal # ""
       THEN [result |-> NoResult, fatal |-> done.fatal,
             thrown |-> done.thrown, lastIndex |-> done.lastIndex]
       ELSE [result |-> SuccessResult(done.jugadas, done.errors, text,
                                      prepared.preprocessed),
             fatal |-> "", thrown |-> done.thrown, lastIndex |-> done.lastIndex]))

\* a try block whose exception is not caught: the exception reaches the caller
ParseRethrow(attempt, text) ==
  [raised |-> attempt.fatal # "", value |-> attempt.result]

\* the catch block of parse: what the caller of parse gets for an attempt
ParseCatch(attempt, text) ==
  IF attempt.fatal # ""
  THEN [raised |-> FALSE, value |-> FailureResult(attempt.fatal, text)]
  ELSE [raised |-> FALSE, value |-> attempt.result]

(***************************************************************************)
(* The parser as a state machine: one Parser object, the plugins handed to *)
(* it, the clock, the microtask queue and the timers of the event loop     *)
(***************************************************************************)
\* the number of parse, extractStructure, initialize, cleanup and direct
\* plugin calls a behaviour makes
MaxCalls == 2
\* the number of plugins registered
MaxPlugins == 2
\* the last instant of the clock
MaxTime == 1

VARIABLES
  config,         \* this.config
  plugins,        \* this.plugins, each with its initialized flag
  isInitialized,  \* this.isInitialized
  cache,          \* this.cache
  lastIndex,      \* PATTERNS.PARLE_EXPLICITO.lastIndex, shared by every call
  catalog,        \* the lastIndex of the other patterns of PATTERNS with the g flag
  microtasks,     \* the continuations of initialize() and cleanup() after await
  timers,         \* the instants at which the timeout callbacks of parse are due
  uncaught,       \* the exceptions thrown by timeout callbacks
  now,            \* Date.now()
  result,         \* the last call and what the caller got
  calls           \* the calls made so far

vars ==
  << config, plugins, isInitialized, cache, lastIndex, catalog, microtasks,
     timers, uncaught, now, result, calls >>

\* the lastIndex of VOLTEO, RANGO, DECENA, TERMINAL, PARES_RELATIVOS and
\* CENTENAS_TODAS when the module is loaded
FreshCatalog == [k \in 1..6 |-> 0]

\* the constructor: registerDefaultPlugins registers nothing
Init ==
  /\ config \in Configs
  /\ plugins = <<>>
  /\ isInitialized = FALSE
  /\ cache = EmptyCache
  /\ lastIndex = 0
  /\ catalog = FreshCatalog
  /\ microtasks = <<>>
  /\ timers = <<>>
  /\ uncaught = 0
  /\ now = 0
  /\ result = [op |-> "none"]
  /\ calls = 0

\* a registerPlugin that leaves the plugins in the order of registration
RegistrationOrder(ps) == ps

\* this.plugins.sort((a, b) => b.priority - a.priority): a stable sort
RECURSIVE SortByPriority(_)
SortByPriority(ps) ==
  IF Len(ps) = 0 THEN <<>>
  ELSE LET sorted == SortByPriority(SubSeq(ps, 1, Len(ps) - 1))
           p == ps[Len(ps)]
           before == SelectSeq(sorted, LAMBDA q : q.priority >= p.priority)
           after == SelectSeq(sorted, LAMBDA q : q.priority < p.priority)
       IN  before \o <<p>> \o after

\* Parser.registerPlugin
RegisterPlugin(plugin) ==
  /\ Len(plugins) < MaxPlugins
  /\ \A k \in 1..Len(plugins) : plugins[k].name # plugin.name
  /\ plugins' = SortByPriority(Append(plugins,
                  IF isInitialized /\ HasInit(plugin)
                  THEN [plugin EXCEPT !.initialized = TRUE] ELSE plugin))
  /\ UNCHANGED << config, isInitialized, cache, lastIndex, microtasks, timers,
                  uncaught, now, result, calls, catalog >>

\* Parser.initialize up to its await: cache.initialize() has already run
\* cleanupExpired when the promise is awaited
InitializeCall ==
  /\ calls < MaxCalls
  /\ calls' = calls + 1
  /\ result' = [op |-> "initialize"]
  /\ IF isInitialized
     THEN UNCHANGED << cache, microtasks >>
     ELSE /\ cache' = cleanupExpired(cache, now)
          /\ microtasks' = Append(microtasks, "initialize")
  /\ UNCHANGED << config, plugins, isInitialized, lastIndex, catalog, timers,
                  uncaught, now >>

\* Parser.initialize after its await
InitializeResume ==
  /\ Len(microtasks) > 0
  /\ Head(microtasks) = "initialize"
  /\ microtasks' = Tail(microtasks)
  /\ plugins' = [k \in 1..Len(plugins) |->
                   IF HasInit(plugins[k])
                   THEN [plugins[k] EXCEPT !.initialized = TRUE] ELSE plugins[k]]
  /\ isInitialized' = TRUE
  /\ UNCHANGED << config, cache, lastIndex, catalog, timers, uncaught, now,
                  result, calls >>

\* Parser.cleanup up to its await
CleanupCall ==
  /\ calls < MaxCalls
  /\ calls' = calls + 1
  /\ result' = [op |-> "cleanup"]
  /\ cache' = cleanupExpired(cache, now)
  /\ microtasks' = Append(microtasks, "cleanup")
  /\ UNCHANGED << config, plugins, isInitialized, lastIndex, catalog, timers,
                  uncaught, now >>

\* Parser.cleanup after its await
CleanupResume ==
  /\ Len(microtasks) > 0
  /\ Head(microtasks) = "cleanup"
  /\ microtasks' = Tail(microtasks)
  /\ plugins' = [k \in 1..Len(plugins) |->
                   IF HasInit(plugins[k])
                   THEN [plugins[k] EXCEPT !.initialized = FALSE] ELSE plugins[k]]
  /\ isInitialized' = FALSE
  /\ UNCHANGED << config, cache, lastIndex, catalog, timers, uncaught, now,
                  result, calls >>

\* the clock advances
Tick ==
  /\ now < MaxTime
  /\ now' = now + 1
  /\ UNCHANGED << config, plugins, isInitialized, cache, lastIndex, microtasks,
                  timers, uncaught, result, calls, catalog >>

\* the callback parse handed to setTimeout runs when it is due and the
\* microtasks are done: it throws outside every try block
TimerFire ==
  /\ Len(timers) > 0
  /\ Head(timers) <= now
  /\ Len(microtasks) = 0
  /\ timers' = Tail(timers)
  /\ uncaught' = uncaught + 1
  /\ UNCHANGED << config, plugins, isInitialized, cache, lastIndex, microtasks,
                  now, result, calls, catalog >>

\* the body of parse after the call of initialize(): what the caller gets
\* (with the plugins and the lastIndex the call was entered with, the cache
\* before and after its cache.get, and whether it called cache.set), the
\* cache and the lastIndex afterwards
ParseCall(text) ==
  Let(IF isInitialized THEN cache ELSE cleanupExpired(cache, now), LAMBDA swept :
  Let(CacheKey(text, config), LAMBDA cacheKey :
  Let(CacheGet(swept, cacheKey, now, config.cache), LAMBDA cached :
  Let([before |-> swept, key |-> cacheKey, found |-> cached.found,
       at |-> cached.at, after |-> cached.cm], LAMBDA got :
  IF cached.found
  THEN [result |-> [op |-> "parse", text |-> text, raised |-> FALSE,
                    value |-> cached.cm.entries[cached.at].value,
                    thrown |-> <<>>, hit |-> TRUE,
                    entered |-> [plugins |-> plugins, lastIndex |-> lastIndex],
                    got |-> got, stored |-> FALSE],
        cache |-> cached.cm,
        lastIndex |-> lastIndex]
  ELSE Let(ParseText(text, plugins, config, lastIndex), LAMBDA attempt :
       Let(ParseCatch(attempt, text), LAMBDA caught :
       Let(attempt.fatal = "" /\ attempt.result.success /\ config.cache.enabled,
           LAMBDA stored :
       [result |-> [op |-> "parse", text |-> text, raised |-> caught.raised,
                    value |-> caught.value,
                    thrown |-> attempt.thrown, hit |-> FALSE,
                    entered |-> [plugins |-> plugins, lastIndex |-> lastIndex],
                    got |-> got, stored |-> stored],
        cache |-> IF stored
                  THEN CacheSet(cached.cm, cacheKey, attempt.result, now,
                                config.cache)
                  ELSE cached.cm,
        lastIndex |-> attempt.lastIndex])))))))

\* Parser.parse
Parse(text) ==
  /\ calls < MaxCalls
  /\ calls' = calls + 1
  /\ microtasks' = IF isInitialized THEN microtasks
                   ELSE Append(microtasks, "initialize")
  /\ timers' = IF config.timeout # 0 THEN Append(timers, now + config.timeout)
               ELSE timers
  /\ \E after \in {ParseCall(text)} :
       /\ result' = after.result
       /\ cache' = after.cache
       /\ lastIndex' = after.lastIndex
  /\ UNCHANGED << config, plugins, isInitialized, uncaught, now, catalog >>

\* Parser.extractStructure: analyzers.ts exports no detectPatterns, so the
\* call made for the first line of the first block raises a TypeError
ExtractStructure(text) ==
  /\ calls < MaxCalls
  /\ calls' = calls + 1
  /\ \E bloques \in {Prepared(text, config).bloques} :
       result' = [op |-> "extractStructure", text |-> text,
                  raised |-> Len(bloques) > 0,
                  value |-> IF Len(bloques) > 0 THEN <<>>
                            ELSE [k \in 1..Len(bloques) |->
                                    [id |-> k,
                                     jugador |-> extractJugador(bloques[k]),
                                     lineCount |-> Len(NonBlankLines(bloques[k]))]]]
  /\ UNCHANGED << config, plugins, isInitialized, cache, lastIndex, microtasks,
                  timers, uncaught, now, catalog >>

\* plugin.process(line, context) called on a registered plugin, as the unit
\* tests of the plugins do
PluginProcessCall(k, line) ==
  /\ k <= Len(plugins)
  /\ calls < MaxCalls
  /\ calls' = calls + 1
  /\ \E run \in {PluginProcess(plugins[k], line,
                   [config |-> config, jugador |-> Desconocido,
                    totalDeclarado |-> Null, lineas |-> <<line>>], lastIndex)} :
       /\ result' = [op |-> "process", plugin |-> plugins[k].name, text |-> line,
                     raised |-> run.outcome.kind = "throw",
                     returned |-> run.outcome.kind = "jugada",
                     jugada |-> run.outcome.jugada]
       /\ lastIndex' = run.lastIndex
  /\ UNCHANGED << config, plugins, isInitialized, cache, microtasks, timers,
                  uncaught, now, catalog >>

\* Parser.getInfo: the names of this.plugins
GetInfo ==
  /\ calls < MaxCalls
  /\ calls' = calls + 1
  /\ result' = [op |-> "getInfo",
                plugins |-> [k \in 1..Len(plugins) |-> plugins[k].name]]
  /\ UNCHANGED << config, plugins, isInitialized, cache, lastIndex, microtasks,
                  timers, uncaught, now, catalog >>

Next ==
  \/ \E plugin \in PluginCatalog : RegisterPlugin(plugin)
  \/ GetInfo
  \/ InitializeCall
  \/ InitializeResume
  \/ CleanupCall
  \/ CleanupResume
  \/ Tick
  \/ TimerFire
  \/ \E text \in Texts : Parse(text)
  \/ \E text \in StructureTexts : ExtractStructure(text)
  \/ \E k \in 1..MaxPlugins, line \in Lines : PluginProcessCall(k, line)

Spec == Init /\ [][Next]_vars

\* the caller of parse empties the jugadas of the ParseResult it was handed:
\* parse returns the object it stored in the cache (return result after
\* cache.set) or took from it (return cached), so as long as the entry is in
\* the cache the caller writes to the entry's value
MutateResult ==
  /\ result.op = "parse"
  /\ ~result.raised
  /\ result.value.jugadas # <<>>
  /\ result' = [result EXCEPT !.value.jugadas = <<>>]
  /\ \E k \in {IF result.hit \/ result.stored
               THEN IndexOfKey(cache.entries, result.got.key) ELSE 0} :
       cache' = IF k = 0 THEN cache
                ELSE [cache EXCEPT !.entries[k].value.jugadas = <<>>]
  /\ UNCHANGED << config, plugins, isInitialized, lastIndex, catalog, microtasks,
                  timers, uncaught, now, calls >>

\* a parser that is given default plugins and parses texts of several lines,
\* and a caller that writes to the results it gets
DefaultsNext ==
  \/ \E plugin \in DefaultCatalog : RegisterPlugin(plugin)
  \/ InitializeCall
  \/ InitializeResume
  \/ CleanupCall
  \/ CleanupResume
  \/ Tick
  \/ TimerFire
  \/ \E text \in DefaultsTexts : Parse(text)
  \/ MutateResult

DefaultsSpec == Init /\ [][DefaultsNext]_vars

(***************************************************************************)
(* The properties checked of the parser                                    *)
(***************************************************************************)
\* the last call was parse
IsParse == result.op = "parse"

\* the lines of an input text that are name-lines
NameLines(text) ==
  IF Len(text) = 0 THEN <<>>
  ELSE SelectSeq(Map(Split(text, NL), Trim), isNombreJugador)

\* message m is reported in errors, as it is or as the error of a block
Reported(m, errors) ==
  \E e \in 1..Len(errors) :
    \/ errors[e] = m
    \/ \E b \in 1..3 : errors[e] = "Error procesando bloque " \o ToString(b) \o ": " \o m

FailureShape ==
  IsParse =>
    /\ ~result.value.success =>
         /\ result.value.jugadas = <<>>
         /\ ~result.value.summary.isValid
         /\ result.value.metadata.errors # <<>>
    /\ result.value.success <=> result.value.metadata.errors = <<>>

\* C3: parse of the empty text returns success = false, no jugadas and the
\* empty-text error in metadata.errors, in every configuration
EmptyTextFails ==
  IsParse /\ result.text = TextEmpty =>
    /\ ~result.value.success
    /\ result.value.jugadas = <<>>
    /\ \E e \in 1..Len(result.value.metadata.errors) :
         result.value.metadata.errors[e] = "Texto vacio"

\* the player blocks of an input text: one for each name-line, and one for a
\* text without name-lines that is not empty
SectionCount(text) ==
  IF Len(text) = 0 THEN 0
  ELSE IF Len(NameLines(text)) = 0 THEN 1 ELSE Len(NameLines(text))

\* C4: a text with more player blocks than config.maxJugadores makes parse
\* fail with no jugadas and the limit error first in metadata.errors; a text
\* with at most config.maxJugadores blocks gets no such error
MaxJugadoresEnforced ==
  IsParse =>
    LET n == SectionCount(result.text)
        errors == result.value.metadata.errors
    IN  /\ n > config.maxJugadores =>
             /\ ~result.value.success
             /\ result.value.jugadas = <<>>
             /\ errors # <<>>
             /\ \E b \in 0..n : errors[1] = TooMany(b, config.maxJugadores)
        /\ n <= config.maxJugadores =>
             \A e \in 1..Len(errors) : \A b \in 0..4 :
               errors[e] # TooMany(b, config.maxJugadores)

\* C5: a text of k >= 1 player sections gives, from parse and from
\* extractStructure, exactly k blocks in input order, the i-th with the i-th
\* player name; content without a name-line gives one block of 'Desconocido'
BlocksFollowSections ==
  /\ result.op = "extractStructure" /\ Len(result.text) > 0 => ~result.raised
  /\ (result.op = "extractStructure" \/ (IsParse /\ result.value.success)) =>
       LET names == NameLines(result.text)
           blocks == IF IsParse THEN result.value.jugadas ELSE result.value
       IN  /\ Len(names) >= 1 =>
                /\ Len(blocks) = Len(names)
                /\ \A k \in 1..Len(names) : blocks[k].jugador = names[k]
           /\ Len(names) = 0 /\ Len(result.text) > 0 =>
                /\ Len(blocks) = 1
                /\ blocks[1].jugador = Desconocido

\* the total line of TextTotal as the parser sees it
IsTotalText(linea) == Len(linea) > 0 /\ linea[1] = "t"

\* C6: a block with the total line `Total: 40` gives a Jugada with
\* totalDeclarado = 40 and no detail made from the total line; a block without
\* a total line gives totalDeclarado = null; summary.totalDeclarado is the sum
\* of the declared totals, the absent ones counted as 0
TotalDeclaradoFromTotalLine ==
  IsParse /\ result.value.success =>
    LET jugadas == result.value.jugadas
    IN  /\ result.text = TextTotal =>
             /\ Len(jugadas) >= 1
             /\ jugadas[1].totalDeclarado = Num(4000)
             /\ \A d \in 1..Len(jugadas[1].detalles) :
                  ~IsTotalText(jugadas[1].detalles[d].lineaOriginal)
        /\ result.text \in {TextThree, TextParle, TextPairs} =>
             \A k \in 1..Len(jugadas) : jugadas[k].totalDeclarado = Null
        /\ result.value.summary.totalDeclarado
             = SumNums(Map(jugadas, TotalDeclaradoOf))

\* C7: every Jugada of a ParseResult has isValid exactly when totalDeclarado is
\* null or differs from totalCalculado by less than 0.01
JugadaIsValidIff ==
  IsParse =>
    \A k \in 1..Len(result.value.jugadas) :
      LET j == result.value.jugadas[k]
      IN  j.isValid <=> \/ j.totalDeclarado = Null
                        \/ NumLt(AbsDiff(j.totalCalculado, j.totalDeclarado), Num(1))

MontoOf(d) == d.monto

\* C8: every Jugada of a ParseResult has totalCalculado within 0.01 of the sum
\* of monto over its detalles, and summary.totalCalculado is the sum of
\* totalCalculado over the jugadas
TotalsAreSums ==
  IsParse =>
    /\ \A k \in 1..Len(result.value.jugadas) :
         LET j == result.value.jugadas[k]
         IN  NumLt(AbsDiff(j.totalCalculado, SumNums(Map(j.detalles, MontoOf))), Num(1))
    /\ result.value.summary.totalCalculado
         = SumNums(Map(result.value.jugadas, TotalCalculadoOf))

\* the jugadas the last call produced
JugadasOfCall ==
  IF IsParse THEN result.value.jugadas
  ELSE IF result.op = "process" /\ result.returned THEN <<result.jugada>>
  ELSE <<>>

\* C9: every Parle detail over n numbers has n >= 2, combinaciones = n(n-1)/2
\* and monto = montoUnitario x combinaciones; an explicit pair `a*b` has n = 2,
\* combinaciones = 1 and monto = montoUnitario
ParleAmounts ==
  \A k \in 1..Len(JugadasOfCall) :
    \A i \in 1..Len(JugadasOfCall[k].detalles) :
      LET d == JugadasOfCall[k].detalles[i]
          n == Len(d.numeros)
      IN  d.tipo = "parle" =>
            /\ n >= 2
            /\ d.combinaciones = Num((n * (n - 1)) \div 2)
            /\ d.monto = NumTimes((n * (n - 1)) \div 2, d.montoUnitario)

\* C10: the line `05 10 con 20 y 30` gives exactly two details, a Fijo of
\* monto 20 x 2 and a Corrido of monto 30 x 2 on the same numbers; the line
\* `05 10 con 20` gives exactly one Fijo; no line gives the same Fijo twice
FijoCorridoDetails ==
  result.op = "process" /\ result.plugin = "basic-bet-plugin" /\ result.returned =>
    LET ds == result.jugada.detalles
    IN  /\ result.text = LineFijoCorrido =>
             /\ Len(ds) = 2
             /\ ds[1].tipo = "fijo" /\ ds[1].monto = Num(4000)
             /\ ds[2].tipo = "corrido" /\ ds[2].monto = Num(6000)
             /\ ds[1].numeros = ds[2].numeros
        /\ result.text = LineFijo =>
             /\ Len(ds) = 1
             /\ ds[1].tipo = "fijo" /\ ds[1].monto = Num(4000)
        /\ \A a, b \in 1..Len(ds) :
             a # b /\ ds[a].tipo = "fijo" => ds[a] # ds[b]

\* the parse that was last called missed the cache and reached its block
\* loop with a single block
ParsedOneBlock ==
  /\ IsParse
  /\ ~result.hit
  /\ Let(Prepared(result.text, config), LAMBDA p :
       /\ p.validation.valid \/ ~config.strictMode
       /\ Len(p.bloques) = 1
       /\ Len(p.bloques) <= config.maxJugadores)

\* what canProcess of the k-th plugin answered for the block of the last parse
ClaimOf(k) ==
  PluginCanProcess(result.entered.plugins[k],
                   Prepared(result.text, config).bloques[1],
                   result.entered.lastIndex)

\* the plugins that claimed the block of the last parse before any other did
FirstClaimants ==
  {k \in 1..Len(result.entered.plugins) :
     /\ ClaimOf(k).kind = "yes"
     /\ \A j \in 1..(k - 1) : ClaimOf(j).kind = "no"}

\* what process of the k-th plugin gives for the block of the last parse
ProcessOf(k) ==
  Let(Prepared(result.text, config).bloques[1], LAMBDA bloque :
    PluginProcess(result.entered.plugins[k], bloque,
                  PluginContextOf(bloque, TrimmedLines(bloque),
                                  extractJugador(bloque), config),
                  ClaimOf(k).lastIndex).outcome)

\* this.plugins or the plugins a parse was entered with, by priority
ByPriority(ps) ==
  \A i, j \in 1..Len(ps) : i < j => ps[i].priority >= ps[j].priority

\* C11: the plugin list is always ordered by non-increasing priority, and the
\* jugada (or the error) of a block is the one of the first plugin in that
\* order whose canProcess returned true, so that no claiming plugin of lower
\* priority decides the block
PluginsByPriority ==
  /\ ByPriority(plugins)
  /\ IsParse => ByPriority(result.entered.plugins)
  /\ ParsedOneBlock =>
       \A k \in FirstClaimants :
         /\ \A j \in 1..Len(result.entered.plugins) :
              ClaimOf(j).kind = "yes" /\ j # k =>
                result.entered.plugins[j].priority
                  <= result.entered.plugins[k].priority
         /\ ProcessOf(k).kind = "jugada" =>
              result.value.jugadas = <<enrichJugada(ProcessOf(k).jugada, 0)>>
         /\ ProcessOf(k).kind = "throw" =>
              /\ result.value.jugadas = <<>>
              /\ Reported(ProcessOf(k).message, result.value.metadata.errors)

\* a parse whose block two registered plugins claimed, the one of higher
\* priority having made the jugada
HigherPriorityWon ==
  /\ ParsedOneBlock
  /\ Len(result.entered.plugins) = 2
  /\ result.entered.plugins[1].priority > result.entered.plugins[2].priority
  /\ ClaimOf(1).kind = "yes"
  /\ ClaimOf(2).kind = "yes"
  /\ ProcessOf(1).kind = "jugada"
  /\ result.value.jugadas = <<enrichJugada(ProcessOf(1).jugada, 0)>>

\* the names of the default plugins (src/plugins/default-plugins)
DefaultPluginNames ==
  { "basic-bet-plugin", "parle-plugin", "centena-plugin", "candado-plugin",
    "special-patterns-plugin", "auto-correct-plugin" }

\* C12: getInfo().plugins of a parser holds the six default plugins, whether
\* or not registerPlugin was ever called
DefaultPluginsRegistered ==
  result.op = "getInfo" =>
    \A name \in DefaultPluginNames :
      \E k \in 1..Len(result.plugins) : result.plugins[k] = name

\* C13: a parse of the text of the parse before it, on the same parser with
\* the same plugins in the same condition, returns the same result, whatever
\* was called in between
ParseDeterministic ==
  [][(/\ IsParse
      /\ calls' = calls + 1
      /\ result'.op = "parse"
      /\ result'.text = result.text
      /\ result.entered.plugins = plugins)
     => result'.value = result.value]_vars

\* C14: the result a parse takes from the cache is the result the same parse
\* would compute at that moment, with the plugins registered by then
CacheHitEqualsFresh ==
  IsParse /\ result.hit =>
    Let(ParseText(result.text, result.entered.plugins, config,
                  result.entered.lastIndex), LAMBDA attempt :
      result.value = ParseCatch(attempt, result.text).value)

\* C15: with the cache enabled, the first parse of a text is a miss (one more
\* miss) and, when it succeeds, leaves an entry for the text; a parse of the
\* text of the successful parse before it, while that entry is there and has
\* not expired, is a hit: one more hit, no entry added, no recognizer run
CachePopulatedOnce ==
  [][(calls' = calls + 1 /\ result'.op = "parse" /\ config.cache.enabled) =>
       LET text == result'.text
           key == CacheKey(text, config)
           k == IndexOfKey(cache.entries, key)
           first == calls = 0 \/ (calls = 1 /\ ~(IsParse /\ result.text = text))
           again == /\ calls >= 1
                    /\ IsParse /\ result.text = text /\ result.value.success
                    /\ k # 0 /\ ~Expired(cache.entries[k], now)
       IN  /\ first =>
                /\ ~result'.hit
                /\ cache'.stats.misses = cache.stats.misses + 1
                /\ result'.value.success => IndexOfKey(cache'.entries, key) # 0
           /\ again =>
                /\ result'.hit
                /\ cache'.stats.hits = cache.stats.hits + 1
                /\ Len(cache'.entries) = Len(cache.entries)
                /\ lastIndex' = lastIndex]_vars

\* the entries of a cache other than the one at position k
OtherEntries(entries, k) ==
  [m \in 1..(Len(entries) - 1) |-> IF m < k THEN entries[m] ELSE entries[m + 1]]

IsNewEntry(e, key, value, t) ==
  e.key = key /\ e.value = value /\ e.hits = 0 /\ e.timestamp = t

TimeoutInsideResult ==
  /\ uncaught = 0
  /\ IsParse => ~result.raised
  /\ IsParse /\ Reported("Timeout excedido durante el parseo",
                         result.value.metadata.errors) =>
       ~result.value.success /\ result.value.jugadas = <<>>

\* C19: the plugin whose process a parse invokes has had its init called, and
\* no parse reports a plugin that is not initialized
InitBeforeProcess ==
  /\ ParsedOneBlock =>
       \A k \in FirstClaimants :
         HasInit(result.entered.plugins[k]) => result.entered.plugins[k].initialized
  /\ IsParse =>
       \A plugin \in PluginCatalog :
         ~Reported(NotInitialized(plugin.name), result.value.metadata.errors)

\* error e of validateJugada on jugada j is in errors, as it is or after the
\* name of the player
ValidationReported(e, j, errors) ==
  \E m \in 1..Len(errors) :
    errors[m] = e \/ errors[m] = "[" \o Str(j.jugador) \o "] " \o e

\* C20: when validateJugada reports an error for a jugada of a parse, the
\* parse returns success = false with that error in metadata.errors, in
\* strict and in non-strict mode
JugadaErrorsReported ==
  IsParse /\ ~result.hit =>
    \A k \in 1..Len(result.value.jugadas) :
      Let(validateJugada(result.value.jugadas[k], config), LAMBDA v :
        ~v.valid =>
          /\ ~result.value.success
          /\ \A e \in 1..Len(v.errors) :
               ValidationReported(v.errors[e], result.value.jugadas[k],
                                  result.value.metadata.errors))

(***************************************************************************)
(* The components called on their own, as their unit tests call them: the  *)
(* Preprocessor, the CacheManager and the recognition queries of the       *)
(* Preprocessor and of the plugins, which share the patterns catalog       *)
(***************************************************************************)
\* the texts handed to the components
TextVolteo == << "2", "5", "v" >>
TextVolteoV == << "2", "5", "v", " ", "v" >>
TextComma == << "0", "5", " ", "c", "o", "n", " ", "1", ",", "5" >>
UnitTexts == {TextVolteo, TextVolteoV, TextComma, TextTotal, TextPair}

\* new Preprocessor({ ...DEFAULT_CONFIG, autoExpand: false })
NoExpandConfig == [DEFAULT_CONFIG EXCEPT !.autoExpand = FALSE]
\* new Preprocessor({ ...DEFAULT_CONFIG, decimalSeparator: ',' })
CommaConfig == [DEFAULT_CONFIG EXCEPT !.decimalSeparator = ","]
\* the configurations the components are constructed with
UnitConfigs == {DEFAULT_CONFIG, NoExpandConfig, CommaConfig, SmallConfig}

\* the number of calls made on the components
MaxUnitCalls == 3

\* the components after construction
UnitInit ==
  /\ config \in UnitConfigs
  /\ plugins = <<>>
  /\ isInitialized = FALSE
  /\ cache = EmptyCache
  /\ lastIndex = 0
  /\ catalog = FreshCatalog
  /\ microtasks = <<>>
  /\ timers = <<>>
  /\ uncaught = 0
  /\ now = 0
  /\ result = [op |-> "none"]
  /\ calls = 0

\* Preprocessor.preprocessLine, which is process: each replace of
\* expandPatterns starts its pattern at lastIndex 0 and leaves it there
PreprocessLine(text) ==
  /\ calls < MaxUnitCalls
  /\ calls' = calls + 1
  /\ result' = [op |-> "preprocessLine", text |-> text,
                value |-> process(text, config)]
  /\ catalog' = IF config.autoExpand THEN FreshCatalog ELSE catalog
  /\ UNCHANGED << config, plugins, isInitialized, cache, lastIndex, microtasks,
                  timers, uncaught, now >>

\* the patterns of the catalog with the g flag that the recognition queries
\* test, by position: VOLTEO, RANGO, DECENA, TERMINAL, PARES_RELATIVOS and
\* CENTENAS_TODAS; the position after the match of pattern k that starts at i
CatalogMatch(k, s, i) ==
  CASE k = 1 -> VOLTEO(s, i)
    [] k = 2 -> RANGO(s, i)
    [] k = 3 -> DECENA(s, i)
    [] k = 4 -> TERMINAL(s, i)
    [] k = 5 -> PARES_RELATIVOS(s, i)
    [] k = 6 -> CENTENAS_TODAS(s, i)

\* [pattern k, ..., pattern n].some(pattern => pattern.test(text)): the answer
\* and the lastIndex each test leaves in the catalog
RECURSIVE SomeTest(_, _, _, _)
SomeTest(text, cat, k, n) ==
  IF k > n THEN [value |-> FALSE, catalog |-> cat]
  ELSE Let(TestG(text, cat[k], LAMBDA s, i : CatalogMatch(k, s, i)), LAMBDA t :
       IF t.found
       THEN [value |-> TRUE, catalog |-> [cat EXCEPT ![k] = t.lastIndex]]
       ELSE SomeTest(text, [cat EXCEPT ![k] = 0], k + 1, n))

\* Preprocessor.needsExpansion
needsExpansion(line, cat) == SomeTest(line, cat, 1, 6)

\* SpecialPatternsPlugin.canProcess: its patterns are the first five
SpecialCanProcess(text, cat) == SomeTest(text, cat, 1, 5)

SpecialPatternsPlugin ==
  [name |-> "special-patterns-plugin", priority |-> 90, initialized |-> FALSE]

\* the plugins whose canProcess is called
UnitPlugins == {BasicBetPlugin, ParlePlugin, SpecialPatternsPlugin, AutoCorrectPlugin}

\* Preprocessor.needsExpansion(line)
NeedsExpansion(line) ==
  /\ calls < MaxUnitCalls
  /\ calls' = calls + 1
  /\ \E answer \in {needsExpansion(line, catalog)} :
       /\ result' = [op |-> "needsExpansion", text |-> line,
                     value |-> answer.value]
       /\ catalog' = answer.catalog
  /\ UNCHANGED << config, plugins, isInitialized, cache, lastIndex, microtasks,
                  timers, uncaught, now >>

\* plugin.canProcess(text) of a default plugin
CanProcess(plugin, text) ==
  /\ calls < MaxUnitCalls
  /\ calls' = calls + 1
  /\ IF plugin.name = "special-patterns-plugin"
     THEN \E answer \in {SpecialCanProcess(text, catalog)} :
            /\ result' = [op |-> "canProcess", plugin |-> plugin, text |-> text,
                          value |-> answer.value]
            /\ catalog' = answer.catalog
            /\ UNCHANGED lastIndex
     ELSE \E answer \in {PluginCanProcess(plugin, text, lastIndex)} :
            /\ result' = [op |-> "canProcess", plugin |-> plugin, text |-> text,
                          value |-> answer.kind = "yes"]
            /\ lastIndex' = answer.lastIndex
            /\ UNCHANGED catalog
  /\ UNCHANGED << config, plugins, isInitialized, cache, microtasks, timers,
                  uncaught, now >>

\* the keys and the values the cache is called with
CacheKeys == {"a", "b"}
CacheValues == {1, 2}

\* CacheManager.get(key)
CacheGetCall(key) ==
  /\ calls < MaxUnitCalls
  /\ calls' = calls + 1
  /\ \E got \in {CacheGet(cache, key, now, config.cache)} :
       /\ cache' = got.cm
       /\ result' = [op |-> "cache.get", key |-> key, found |-> got.found,
                     value |-> IF got.found THEN got.cm.entries[got.at].value
                               ELSE 0]
  /\ UNCHANGED << config, plugins, isInitialized, lastIndex, catalog, microtasks,
                  timers, uncaught, now >>

\* CacheManager.set(key, value)
CacheSetCall(key, value) ==
  /\ calls < MaxUnitCalls
  /\ calls' = calls + 1
  /\ cache' = CacheSet(cache, key, value, now, config.cache)
  /\ result' = [op |-> "cache.set", key |-> key, value |-> value]
  /\ UNCHANGED << config, plugins, isInitialized, lastIndex, catalog, microtasks,
                  timers, uncaught, now >>

\* CacheManager.delete(key)
CacheDeleteCall(key) ==
  /\ calls < MaxUnitCalls
  /\ calls' = calls + 1
  /\ cache' = CacheDelete(cache, key)
  /\ result' = [op |-> "cache.delete", key |-> key,
                value |-> IndexOfKey(cache.entries, key) # 0]
  /\ UNCHANGED << config, plugins, isInitialized, lastIndex, catalog, microtasks,
                  timers, uncaught, now >>

\* CacheManager.clear()
CacheClearCall ==
  /\ calls < MaxUnitCalls
  /\ calls' = calls + 1
  /\ cache' = CacheClear(cache)
  /\ result' = [op |-> "cache.clear"]
  /\ UNCHANGED << config, plugins, isInitialized, lastIndex, catalog, microtasks,
                  timers, uncaught, now >>

\* CacheManager.initialize(): cleanupExpired has run when the promise is made
CacheInitialize ==
  /\ calls < MaxUnitCalls
  /\ calls' = calls + 1
  /\ cache' = cleanupExpired(cache, now)
  /\ result' = [op |-> "cache.initialize"]
  /\ UNCHANGED << config, plugins, isInitialized, lastIndex, catalog, microtasks,
                  timers, uncaught, now >>

\* CacheManager.cleanup(): cleanupExpired has run when the promise is made
CacheCleanup ==
  /\ calls < MaxUnitCalls
  /\ calls' = calls + 1
  /\ cache' = cleanupExpired(cache, now)
  /\ result' = [op |-> "cache.cleanup"]
  /\ UNCHANGED << config, plugins, isInitialized, lastIndex, catalog, microtasks,
                  timers, uncaught, now >>

UnitNext ==
  \/ Tick
  \/ \E text \in UnitTexts : PreprocessLine(text)
  \/ \E line \in UnitTexts : NeedsExpansion(line)
  \/ \E plugin \in UnitPlugins, text \in UnitTexts : CanProcess(plugin, text)
  \/ \E key \in CacheKeys : CacheGetCall(key)
  \/ \E key \in CacheKeys, value \in CacheValues : CacheSetCall(key, value)
  \/ \E key \in CacheKeys : CacheDeleteCall(key)
  \/ CacheClearCall
  \/ CacheInitialize
  \/ CacheCleanup

UnitSpec == UnitInit /\ [][UnitNext]_vars

(***************************************************************************)
(* The properties checked of the components and of the dispatch            *)
(***************************************************************************)
\* C21: Preprocessor.process is idempotent: the text preprocessLine returns
\* is left as it is by a second process, whatever the configuration
ProcessIdempotent ==
  result.op = "preprocessLine" => process(result.value, config) = result.value

\* the numbers of the details of the jugadas of the last parse
NumerosOfCall ==
  UNION {UNION {{d.numeros[n] : n \in 1..Len(d.numeros)} :
                d \in {j.detalles[m] : m \in 1..Len(j.detalles)}} :
         j \in {result.value.jugadas[k] : k \in 1..Len(result.value.jugadas)}}

\* C22: every number of every detail of a ParseResult is a string of two or
\* three digits
NumerosCanonical ==
  IsParse => \A numero \in NumerosOfCall :
               /\ Len(numero) \in {2, 3}
               /\ \A k \in 1..Len(numero) : numero[k] \in Digit

\* the line holds the word con
HasCon(linea) == \E i \in 1..Len(linea) : LitAtCI(linea, i, <<"c", "o", "n">>)

\* the details of jugada j that come from its line k, by position
DetallesOfLine(j, k) ==
  {m \in 1..Len(j.detalles) : j.detalles[m].lineaOriginal = j.lineas[k]}

\* the lines of jugada j before line i whose last detail is a fijo
FijoEnded(j, i) ==
  {k \in 1..(i - 1) :
     /\ DetallesOfLine(j, k) # {}
     /\ \E m \in DetallesOfLine(j, k) :
          /\ \A n \in DetallesOfLine(j, k) : n <= m
          /\ j.detalles[m].tipo = "fijo"}

\* the unit amount carried to line i of jugada j: that of the fijo that ended
\* the nearest line before it, or the default
CarriedMonto(j, i, c) ==
  IF FijoEnded(j, i) = {} THEN c.defaultMontoFijo
  ELSE LET k == CHOOSE a \in FijoEnded(j, i) : \A b \in FijoEnded(j, i) : a >= b
           m == CHOOSE a \in DetallesOfLine(j, k) :
                  \A b \in DetallesOfLine(j, k) : a >= b
       IN  j.detalles[m].montoUnitario

\* C23: in every jugada of a parse, a line with numbers and no con amount
\* has a detail whose unit amount is the one carried from the lines of its
\* block before it, or config.defaultMontoFijo when there is none
MontoCarriedOver ==
  IsParse /\ result.value.success =>
    \A n \in 1..Len(result.value.jugadas) :
      \A i \in 1..Len(result.value.jugadas[n].lineas) :
        LET j == result.value.jugadas[n]
        IN  hasNumbers(j.lineas[i]) /\ ~HasCon(j.lineas[i]) =>
              \E m \in DetallesOfLine(j, i) :
                j.detalles[m].montoUnitario = CarriedMonto(j, i, config)

\* the plugins of the default set that the parser of the last parse had, all
\* initialised
DefaultsReady(ps) ==
  \A k \in 1..Len(ps) : ps[k].name \in DefaultPluginNames /\ ps[k].initialized

\* the first plugin of ps that claims the line on its own, or 0
LineClaimant(ps, linea) ==
  IF \E k \in 1..Len(ps) : PluginCanProcess(ps[k], linea, 0).kind = "yes"
  THEN CHOOSE k \in 1..Len(ps) :
         /\ PluginCanProcess(ps[k], linea, 0).kind = "yes"
         /\ \A m \in 1..(k - 1) : PluginCanProcess(ps[m], linea, 0).kind # "yes"
  ELSE 0

\* what a detail bets: its kind, its numbers and its unit amount
Bet(d) == [tipo |-> d.tipo, numeros |-> d.numeros, montoUnitario |-> d.montoUnitario]

\* the bets of the lines from line i on when each line is dispatched on its
\* own to the first plugin that claims it, in the order of the lines
RECURSIVE LineByLine(_, _, _, _, _)
LineByLine(ps, lineas, i, context, li) ==
  IF i > Len(lineas) THEN <<>>
  ELSE Let(TryPlugins(ps, 1, lineas[i], 0,
                      [context EXCEPT !.lineas = <<lineas[i]>>], li), LAMBDA run :
       (IF run.outcome.kind = "jugada"
        THEN [m \in 1..Len(run.outcome.jugada.detalles) |->
                Bet(run.outcome.jugada.detalles[m])]
        ELSE <<>>)
       \o LineByLine(ps, lineas, i + 1, context, run.lastIndex))

\* the bet lines of the block of the last parse
BetLines ==
  Let(Prepared(result.text, config).bloques[1], LAMBDA bloque :
    PluginContextOf(bloque, TrimmedLines(bloque), extractJugador(bloque),
                    config).lineas)

\* the block of the last parse has two bet lines claimed by different plugins
MixedBlock ==
  /\ ParsedOneBlock
  /\ DefaultsReady(result.entered.plugins)
  /\ \E a, b \in 1..Len(BetLines) :
       /\ LineClaimant(result.entered.plugins, BetLines[a]) # 0
       /\ LineClaimant(result.entered.plugins, BetLines[b]) # 0
       /\ LineClaimant(result.entered.plugins, BetLines[a])
            # LineClaimant(result.entered.plugins, BetLines[b])

\* C24: the jugada of a block whose lines are claimed by different plugins
\* holds the bets of every bet line, each made by the first plugin that
\* claims that line, in the order of the lines
LinesDispatchedAlone ==
  MixedBlock =>
    /\ Len(result.value.jugadas) = 1
    /\ [m \in 1..Len(result.value.jugadas[1].detalles) |->
          Bet(result.value.jugadas[1].detalles[m])]
       = Let(Prepared(result.text, config).bloques[1], LAMBDA bloque :
           LineByLine(result.entered.plugins, BetLines, 1,
                      PluginContextOf(bloque, TrimmedLines(bloque),
                                      extractJugador(bloque), config),
                      result.entered.lastIndex))

\* none of the corrections of AutoCorrectPlugin finds anything in the text:
\* it has no hyphen, colon or equals sign, no y and no con
NothingToCorrect(text) ==
  /\ \A i \in 1..Len(text) : ToLower(text[i]) \notin {"-", ":", "=", "y"}
  /\ ~HasCon(text)

\* what the plugins after the first give for the block of the last parse
AfterFirst ==
  Let(Prepared(result.text, config).bloques[1], LAMBDA bloque :
    TryPlugins(Tail(result.entered.plugins), 1, bloque, 0,
               PluginContextOf(bloque, TrimmedLines(bloque),
                               extractJugador(bloque), config),
               result.entered.lastIndex).outcome)

\* the last parse had AutoCorrectPlugin first among its initialised default
\* plugins and a block in which there is nothing to correct, for which the
\* plugins after it make a jugada
AutoCorrectFirst ==
  /\ ParsedOneBlock
  /\ Len(result.entered.plugins) >= 2
  /\ DefaultsReady(result.entered.plugins)
  /\ result.entered.plugins[1].name = "auto-correct-plugin"
  /\ NothingToCorrect(Prepared(result.text, config).bloques[1])
  /\ AfterFirst.kind = "jugada"

\* C25: AutoCorrectPlugin is never the final claimant: the jugada of a block
\* is the one the plugins of lower priority make of the corrected text
AutoCorrectPassesOn ==
  AutoCorrectFirst => result.value.jugadas = <<AfterFirst.jugada>>

\* what a recognition query answers when no call came before it
FreshAnswer ==
  IF result.op = "needsExpansion"
  THEN needsExpansion(result.text, FreshCatalog).value
  ELSE IF result.plugin.name = "special-patterns-plugin"
  THEN SpecialCanProcess(result.text, FreshCatalog).value
  ELSE PluginCanProcess(result.plugin, result.text, 0).kind = "yes"

\* C26: needsExpansion and canProcess answer for a text what they answer for
\* it when nothing was called before: the answer does not depend on the calls
\* made earlier
RecognitionRepeatable ==
  result.op \in {"needsExpansion", "canProcess"} => result.value = FreshAnswer

\* what processing the block of the last parse gave
BlockOutcome ==
  parseBloque(Prepared(result.text, config).bloques[1], 0,
              result.entered.plugins, config, result.entered.lastIndex).outcome

\* processing the only block of the last parse threw
BlockThrew == ParsedOneBlock /\ BlockOutcome.kind = "throw"

StrictParseAborted ==
  /\ BlockThrew
  /\ config.strictMode
  /\ ~result.value.success

\* C28: a ParseResult handed to a caller is not shared with the cache: when
\* the caller changes the result it was handed, the cache stays as it was,
\* so that a later parse of the text gets what was stored
ResultNotShared ==
  [][(/\ result.op = "parse"
      /\ result'.op = "parse"
      /\ calls' = calls
      /\ result'.value # result.value) => cache' = cache]_vars

\* C29: after any sequence of get, set, delete, clear, initialize and cleanup,
\* with entries expiring and being evicted in between, stats.size is the
\* number of entries the cache holds, and it is never negative
StatsSizeConsistent ==
  /\ cache.stats.size = Len(cache.entries)
  /\ cache.stats.size >= 0

\* a set has evicted an entry to make room and the cache holds one entry
EvictedOnSet ==
  /\ result.op = "cache.set"
  /\ cache.stats.evictions = 1
  /\ Len(cache.entries) = 1

\* a get has found its entry expired and removed it
ExpiredOnGet ==
  /\ result.op = "cache.get"
  /\ ~result.found
  /\ cache.stats.misses = 1
  /\ cache.stats.size = 0
  /\ calls = 2
  /\ now > 0

\* C30: in every successful ParseResult summary.isValid is true exactly when
\* every Jugada of the result has isValid = true; a result whose jugadas
\* declare no total has summary.isValid = true, and mismatches of opposite
\* sign do not cancel
SummaryValidIffJugadasValid ==
  (IsParse /\ ~result.raised /\ result.value.success) =>
    (result.value.summary.isValid
       <=> \A k \in 1..Len(result.value.jugadas) : result.value.jugadas[k].isValid)

=============================================================================
